---- MODULE Spec2Model ----
(***************************************************************************)
(* The build (rebuild) pipeline of the website: main.rs build() walking    *)
(* the content tree and reconciling it into the SQLite store through       *)
(* Post, Photo, Asset, File and User.                                      *)
(*                                                                         *)
(* The content tree and the store are the state; one action per store or   *)
(* file-system statement of build(), in program order.  Strings are        *)
(* sequences of one-character strings, so that formatting and tag          *)
(* normalisation are computed, not assumed.                                *)
(***************************************************************************)
EXTENDS Integers, Sequences, FiniteSets, TLC

\* ------------------------------------------------------------------ bounds
\* Largest modification time a file of the tree gets.
MaxTime == 2
\* Number of edits the author makes to the content tree over a behaviour.
MaxEdits == 1
\* Number of build runs over a behaviour.
MaxBuilds == 3

\* ------------------------------------------------------- program constants
\* format!("{:016x}", ..): the minimum width of a formatted id.
IdWidth == 16
\* the radix of the {:x} format.
HexBase == 16
\* f32: the significant bits of a value (IEEE 754 binary32).
MantissaBits == 24

\* ---------------------------------------------------------------- universe
\* Post directories under config.posts_path.
PostDirs == {"p1", "p2"}
\* The (stable) order in which fs::read_dir yields the directories it knows.
DirOrders == {<<"p1", "p2">>, <<"p2", "p1">>}
\* The two photo sub-directories of a post (public, private): is_private.
Visibilities == {FALSE, TRUE}
\* The optional sub-directories of a post directory: cfg.post_assets_path,
\* cfg.post_public_photos_path, cfg.post_private_photos_path.
SubDirs == {"assets", "public", "private"}
PhotosDir(priv) == IF priv THEN "private" ELSE "public"
\* File names inside a photo directory.
PhotoNames == {"a.jpg"}
PhotoNameOrder == <<"a.jpg">>
\* File names inside a post's assets directory.
AssetNames == {"fig.png"}
AssetNameOrder == <<"fig.png">>
\* <category directory, file name> under config.files_path.
FileSlots == {<<"styles", "main.css">>, <<"files", "cv.pdf">>}
FileSlotOrder == <<(<<"styles", "main.css">>), (<<"files", "cv.pdf">>)>>
\* The required roots: config.files_path and config.posts_path.
RootDirs == {"files", "posts"}
\* Image contents (the bytes of a photo file).
Bytes == {1, 2}
\* The values rand::random::<u64>() is drawn from.
RandomU64 == {0, 171}

\* Option<T>: None is the empty sequence, Some(x) the one-element sequence.
None == << >>
Some(x) == <<x>>
IsSome(o) == Len(o) = 1
Unwrap(o) == o[1]

\* --------------------------------------------------------- pure functions
Digits == <<"0", "1", "2", "3", "4", "5", "6", "7", "8", "9",
            "a", "b", "c", "d", "e", "f">>

RECURSIVE LowerHex(_)
\* {:x}: the lowercase hexadecimal digits of n, most significant first.
LowerHex(n) ==
    IF n < HexBase THEN <<Digits[n + 1]>>
    ELSE LowerHex(n \div HexBase) \o <<Digits[(n % HexBase) + 1]>>

\* {:0w}: zero padding on the left up to the width; never truncates.
ZeroPad(s, w) ==
    IF Len(s) >= w THEN s ELSE [i \in 1..(w - Len(s)) |-> "0"] \o s

\* A format!("{:016x}", n) that forgets the zero padding.
Format016xUnpadded(n) == LowerHex(n)

\* format!("{:016x}", n)
Format016x(n) == ZeroPad(LowerHex(n), IdWidth)

\* char::to_lowercase on the characters tags are written with.
LowerChar(c) ==
    CASE c = "A" -> "a"
      [] c = "B" -> "b"
      [] c = "C" -> "c"
      [] OTHER -> c

\* A normalisation that lowercases and leaves the spaces.
NormalizeTagLowerOnly(tag) == [i \in DOMAIN tag |-> LowerChar(tag[i])]

\* tag.to_lowercase().replace(" ", "_")
NormalizeTag(tag) ==
    [i \in DOMAIN tag |->
        IF LowerChar(tag[i]) = " " THEN "_" ELSE LowerChar(tag[i])]

NormalizeTags(tags) == [i \in DOMAIN tags |-> NormalizeTag(tags[i])]

\* The source path of a photo file: <post dir>/<photos dir>/<name>.
PhotoPath(p, priv, n) == <<p, PhotosDir(priv), n>>

PhotoSlots == PostDirs \X Visibilities \X PhotoNames

\* std::hash::DefaultHasher over the path string: a 64-bit digest, hence not
\* injective; the private photo of p2 stands for a path colliding with p1's
\* private photo.
DefaultHasher(path) ==
    CASE path = PhotoPath("p1", FALSE, "a.jpg") -> 10
      [] path = PhotoPath("p1", TRUE, "a.jpg") -> 11
      [] path = PhotoPath("p2", FALSE, "a.jpg") -> 12
      [] path = PhotoPath("p2", TRUE, "a.jpg") -> 11
      [] OTHER -> 13

\* Photo::new: let id = format!("{:016x}", hasher.finish())
PhotoId(path) == Format016x(DefaultHasher(path))

\* JPEG encoding of the decoded image (large) and of its resized copy (small).
EncodeLarge(bytes) == <<"large", bytes>>
EncodeSmall(bytes) == <<"small", bytes>>

\* ----------------------------------------------------- f32 and the resize
\* An f32 above zero is [m, e], standing for m * 2^e, with m of exactly
\* MantissaBits bits; every operation rounds its exact result to the nearest
\* such number, a tie to the one with the even m.
RECURSIVE Pow2(_)
Pow2(k) == IF k = 0 THEN 1 ELSE 2 * Pow2(k - 1)

RECURSIVE BitLen(_)
\* The number of bits of n >= 1.
BitLen(n) == IF n < 2 THEN 1 ELSE 1 + BitLen(n \div 2)

\* q + r / d rounded to an integer: to the nearest, a tie to the even one.
RoundEven(q, r, d) ==
    IF 2 * r > d \/ (2 * r = d /\ q % 2 = 1) THEN q + 1 ELSE q

\* A rounding that carried into bit MantissaBits + 1 gives the next power.
Normal(m, e) ==
    IF m = Pow2(MantissaBits) THEN [m |-> Pow2(MantissaBits - 1), e |-> e + 1]
    ELSE [m |-> m, e |-> e]

\* n as f32, for an integer n >= 1.
U32AsF32(n) ==
    LET b == BitLen(n)
    IN  IF b <= MantissaBits
        THEN [m |-> n * Pow2(MantissaBits - b), e |-> b - MantissaBits]
        ELSE LET d == Pow2(b - MantissaBits)
             IN  Normal(RoundEven(n \div d, n % d, d), b - MantissaBits)

RECURSIVE LongDiv(_, _, _, _)
\* k more bits of the quotient q, with remainder r, of a division by d.
LongDiv(q, r, d, k) ==
    IF k = 0 THEN [q |-> q, r |-> r]
    ELSE IF 2 * r >= d THEN LongDiv(2 * q + 1, 2 * r - d, d, k - 1)
         ELSE LongDiv(2 * q, 2 * r, d, k - 1)

\* a / b
F32Div(a, b) ==
    LET k == IF a.m >= b.m THEN MantissaBits - 1 ELSE MantissaBits
        qr == LongDiv(a.m \div b.m, a.m % b.m, b.m, k)
    IN  Normal(RoundEven(qr.q, qr.r, b.m), a.e - b.e - k)

\* a * b: the product of the two m in halves of MantissaBits / 2 bits, its
\* upper MantissaBits bits rounded by the rest.
F32Mul(a, b) ==
    LET half == Pow2(MantissaBits \div 2)
        whole == Pow2(MantissaBits)
        ah == a.m \div half
        al == a.m % half
        bh == b.m \div half
        bl == b.m % half
        mid == ah * bl + al * bh
        low == (mid % half) * half + al * bl
        high == ah * bh + mid \div half + low \div whole
        rest == low % whole
    IN  IF high >= whole \div 2
        THEN Normal(RoundEven(high, rest, whole), a.e + b.e + MantissaBits)
        ELSE Normal(RoundEven(2 * high + rest \div (whole \div 2),
                              rest % (whole \div 2), whole \div 2),
                    a.e + b.e + MantissaBits - 1)

\* f32::min(a, b)
F32Min(a, b) ==
    IF b.e < a.e \/ (b.e = a.e /\ b.m < a.m) THEN b ELSE a

\* a as u32: the fraction is cut off (the values the model reaches are
\* below 2^31, far from where the cast saturates).
F32AsU32(a) ==
    IF a.e >= 0 THEN a.m * Pow2(a.e)
    ELSE IF 0 - a.e >= MantissaBits THEN 0
    ELSE a.m \div Pow2(0 - a.e)

\* let scale = f32::min(max as f32 / width as f32, max as f32 / height as f32)
Scale(width, height, max) ==
    F32Min(F32Div(U32AsF32(max), U32AsF32(width)),
           F32Div(U32AsF32(max), U32AsF32(height)))

\* The two arguments of image_large.resize: (width as f32 * scale) as u32 and
\* (height as f32 * scale) as u32.
SmallSize(width, height, max) ==
    LET scale == Scale(width, height, max)
    IN  <<F32AsU32(F32Mul(U32AsF32(width), scale)),
          F32AsU32(F32Mul(U32AsF32(height), scale))>>

\* ------------------------------------------------------------ content tree
\* A photo file: modification time (0: no such file), bytes, and whether the
\* image decoder accepts it.
NoFile == [mtime |-> 0, bytes |-> 0, ok |-> FALSE]
PhotoFile(t, b, k) == [mtime |-> t, bytes |-> b, ok |-> k]

\* Sidecar values an author writes.
AuthorId == <<"n", "1">>
AuthorTags == {<< <<"A", " ", "b">> >>, << <<"c">>, <<"c">> >>, << >>}
\* permalink: Option<String> of a sidecar.
AuthorPermalinks == {None, Some("about")}
PostTitle(p) == <<"t", p>>
PostDate(p) ==
    IF p = "p1" THEN <<"2", "0", "2", "4", "-", "0", "1", "-", "0", "1">>
    ELSE <<"2", "0", "2", "4", "-", "0", "2", "-", "0", "1">>
PostContent(p) == <<"body", p>>
AssetData(p, n) == <<"asset", p, n>>
FileData(slot) == <<"file", slot[1], slot[2]>>

\* A post directory: the content file and the JSON sidecar (the keys of
\* PostMetadata: id, title, description, date, tags, permalink; extra: the
\* sidecar has further keys), the sub-directories that exist (dirs), the
\* files of the assets directory and of the two photo directories.
\* readable: the content file can be read and the sidecar parses.
AbsentPost ==
    [present |-> FALSE, readable |-> FALSE, id |-> None, title |-> << >>,
     description |-> None, date |-> << >>, tags |-> << >>,
     permalink |-> None, extra |-> FALSE, dirs |-> {}, assets |-> {},
     photos |-> [s \in Visibilities \X PhotoNames |-> NoFile]]

SeedPost(p, id) ==
    [present |-> TRUE, readable |-> TRUE, id |-> id,
     title |-> PostTitle(p),
     description |-> IF p = "p1" THEN None ELSE Some("about me"),
     date |-> PostDate(p),
     extra |-> (p = "p1"),
     tags |-> IF p = "p1" THEN << <<"A", " ", "b">> >> ELSE << <<"c">>, <<"c">> >>,
     permalink |-> IF p = "p1" THEN None ELSE Some("about"),
     dirs |-> IF p = "p1" THEN {"assets", "public"} ELSE {"public", "private"},
     assets |-> IF p = "p1" THEN {"fig.png"} ELSE {},
     photos |-> [s \in Visibilities \X PhotoNames |->
                    IF p = "p1" /\ s[1] THEN NoFile ELSE PhotoFile(1, 1, TRUE)]]

VARIABLES
    tree_posts,     \* [PostDirs -> post directory]: the tree under posts_path
    tree_files,     \* the file slots present under files_path
    read_dir,       \* the order fs::read_dir yields post directories in
    roots,          \* the root directories fs::read_dir can enumerate
    foreign_keys,   \* whether the connection enforces FOREIGN KEY clauses
    posts,          \* table posts: set of rows
    posts_tags,     \* table posts_tags: rows in rowid order
    photos,         \* table photos: set of rows
    posts_photos,   \* table posts_photos: rows in rowid order
    styles,         \* table styles (the assets): set of rows
    posts_assets,   \* table posts_assets: rows in rowid order
    files,          \* table files: set of rows
    users,          \* table users: set of rows
    pc,             \* the statement of build() that runs next
    todo_posts,     \* post directories the posts loop has not visited yet
    cur_post,       \* the post directory Post::new is working on
    todo,           \* entries the current inner loop has not visited yet
    cur_private,    \* is_private of the photo loop that is running
    cur_id,         \* the id returned by the last Asset::new / Photo::new
    cur_metadata,       \* the PostMetadata Post::new holds in memory
    start,          \* history: the store when this build started
    unchanged,      \* history: this build follows a completed one, tree untouched
    transformed,    \* history: paths the image transform ran on in this build
    handled,        \* history: paths Photo::new marked or inserted in this build
    photo_writes,   \* history: photo rows inserted or deleted in this build
    generated,      \* history: how often an id was generated for each post dir
    n_edits,        \* history: edits of the tree so far
    n_builds,       \* history: builds started so far
    ops,            \* history: the writes this build has issued, in order
    origin,         \* history: the store before the build a crash interrupted
    failure,        \* history: what ended this build early ("none": nothing)
    scale_in,       \* a decoded image's width and height, and the preview size
    scale_out,      \* the sizes of the large and the small rendition of it
    request,        \* a GET /photos/{id} the server has received
    response        \* what get_photo answered to it

tree_vars == <<tree_posts, tree_files, read_dir, roots>>
store_vars == <<posts, posts_tags, photos, posts_photos, styles, posts_assets,
                files, users>>
ctl_vars == <<pc, todo_posts, cur_post, todo, cur_private, cur_id, cur_metadata>>
hist_vars == <<start, unchanged, transformed, handled, photo_writes, generated,
               n_edits, n_builds, origin>>
img_vars == <<scale_in, scale_out>>
web_vars == <<request, response>>
vars == <<tree_vars, foreign_keys, store_vars, ctl_vars, hist_vars, ops, failure,
          img_vars, web_vars>>

\* The whole store, as one value.
Store ==
    [posts |-> posts, posts_tags |-> posts_tags, photos |-> photos,
     posts_photos |-> posts_photos, styles |-> styles,
     posts_assets |-> posts_assets, files |-> files, users |-> users]

EmptyStore ==
    [posts |-> {}, posts_tags |-> << >>, photos |-> {}, posts_photos |-> << >>,
     styles |-> {}, posts_assets |-> << >>, files |-> {}, users |-> {}]

\* No build is running: the process has not started, has ended with Ok, or has
\* ended by a panic / an Err unwrapped in main.
Stopped == pc \in {"idle", "done", "aborted"}

\* Empty tables, and no build run yet.
IdleInit ==
    /\ posts = {} /\ posts_tags = << >> /\ photos = {} /\ posts_photos = << >>
    /\ styles = {} /\ posts_assets = << >> /\ files = {} /\ users = {}
    /\ pc = "idle" /\ todo_posts = << >> /\ cur_post = "p1" /\ todo = << >>
    /\ cur_private = FALSE /\ cur_id = None
    /\ cur_metadata = [id |-> None, title |-> << >>, description |-> None,
                   date |-> << >>, tags |-> << >>, permalink |-> None]
    /\ start = EmptyStore /\ unchanged = FALSE
    /\ transformed = {} /\ handled = {} /\ photo_writes = {}
    /\ generated = [p \in PostDirs |-> 0]
    /\ n_edits = 0 /\ n_builds = 0
    /\ ops = << >> /\ origin = None
    /\ request = None /\ response = None
    /\ failure = "none"

\* An image of the seed tree and the configured photo_max_preview_size.
SeedImage == [width |-> 4, height |-> 3, max |-> 2]

\* A fresh database next to a content tree; setup() creates empty tables.
Init ==
    /\ scale_in = SeedImage /\ scale_out = None
    /\ \E id1, id2 \in {None, Some(AuthorId)}, two \in BOOLEAN :
          /\ IsSome(id1) => (two /\ IsSome(id2))
          /\ tree_posts = [p \in PostDirs |->
                              IF p = "p1" THEN SeedPost(p, id1)
                              ELSE IF two THEN SeedPost(p, id2) ELSE AbsentPost]
    /\ tree_files = {<<"styles", "main.css">>}
    /\ read_dir \in DirOrders
    /\ roots = RootDirs
    /\ foreign_keys \in BOOLEAN
    /\ IdleInit

\* ------------------------------------------------------------------- SQL
RECURSIVE SetMax(_)
SetMax(S) ==
    LET x == CHOOSE y \in S : TRUE
    IN  IF S = {x} THEN x
        ELSE LET m == SetMax(S \ {x}) IN IF x > m THEN x ELSE m

\* INTEGER PRIMARY KEY without a value: one more than the largest rowid.
NextRowid(tbl) == IF tbl = {} THEN 1 ELSE SetMax({r.id : r \in tbl}) + 1

Rows(tbl) == {tbl[i] : i \in DOMAIN tbl}

\* A statement's outcome: the store it leaves, or an error (store untouched).
Ok(S) == [ok |-> TRUE, store |-> S]
Err(S) == [ok |-> FALSE, store |-> S]

\* FOREIGN KEY .. ON DELETE CASCADE of a child table: the child rows `gone`
\* (those of the deleted parents) go when the connection enforces foreign
\* keys, and stay when it does not.
Cascade(fk, tbl, gone) ==
    IF fk THEN SelectSeq(tbl, LAMBDA r : r \notin gone) ELSE tbl

\* FOREIGN KEY on insert: the parent row must exist when enforced.
Referenced(fk, parents, key) == ~fk \/ \E r \in parents : r.id = key

\* ------------------------------------------------------------------ Post
\* PostMetadata::from_json_file: the six fields of the struct; serde skips
\* the keys it does not know.
from_json_file(dir) ==
    [id |-> dir.id, title |-> dir.title, description |-> dir.description,
     date |-> dir.date, tags |-> dir.tags, permalink |-> dir.permalink]

\* A to_json_file called with the tags already normalised.
to_json_file_normalized(dir, metadata) ==
    [dir EXCEPT !.id = metadata.id, !.title = metadata.title,
                !.description = metadata.description, !.date = metadata.date,
                !.tags = NormalizeTags(metadata.tags),
                !.permalink = metadata.permalink, !.extra = FALSE]

\* PostMetadata::to_json_file: fs::write replaces the sidecar by the
\* serialised struct.
to_json_file(dir, metadata) ==
    [dir EXCEPT !.id = metadata.id, !.title = metadata.title,
                !.description = metadata.description, !.date = metadata.date,
                !.tags = metadata.tags, !.permalink = metadata.permalink,
                !.extra = FALSE]

\* Post::delete_all: DELETE FROM posts
Post_delete_all(S, fk) ==
    [S EXCEPT
        !.posts = {},
        !.posts_tags =
            Cascade(fk, @, {r \in Rows(@) : \E q \in S.posts : q.id = r.post_id}),
        !.posts_photos =
            Cascade(fk, @, {r \in Rows(@) : \E q \in S.posts : q.id = r.post_id}),
        !.posts_assets =
            Cascade(fk, @, {r \in Rows(@) : \E q \in S.posts : q.id = r.post_id})]

\* The row Post::new inserts for a post directory whose sidecar holds an id.
PostRow(p, dir) ==
    [id |-> Unwrap(dir.id), title |-> dir.title, description |-> dir.description,
     date |-> dir.date, permalink |-> dir.permalink,
     source |-> PostContent(p)]

\* An INSERT OR REPLACE INTO posts: the row that holds the id gives way.
InsertPostOrReplace(S, row) ==
    Ok([S EXCEPT !.posts = {r \in @ : r.id # row.id} \cup {row}])

\* INSERT INTO posts: id TEXT PRIMARY KEY NOT NULL.
InsertPost(S, row) ==
    IF \E r \in S.posts : r.id = row.id THEN Err(S)
    ELSE Ok([S EXCEPT !.posts = @ \cup {row}])

\* A set_tags that only appends.
set_tags_append(S, fk, id, tags) ==
    Ok([S EXCEPT !.posts_tags =
            @ \o [i \in DOMAIN tags |-> [post_id |-> id, tag |-> tags[i]]]])

\* Post::set_tags: DELETE FROM posts_tags WHERE post_id = ?, then one INSERT
\* per tag.
set_tags(S, fk, id, tags) ==
    LET kept == SelectSeq(S.posts_tags, LAMBDA r : r.post_id # id)
        S1 == [S EXCEPT !.posts_tags = kept]
    IN  IF tags # << >> /\ ~Referenced(fk, S.posts, id) THEN Err(S1)
        ELSE Ok([S1 EXCEPT !.posts_tags =
                    @ \o [i \in DOMAIN tags |-> [post_id |-> id, tag |-> tags[i]]]])

\* Post::get_tags: SELECT tag FROM posts_tags WHERE post_id = ?
get_tags(S, id) ==
    LET mine == SelectSeq(S.posts_tags, LAMBDA r : r.post_id = id)
    IN  [i \in DOMAIN mine |-> mine[i].tag]

\* ----------------------------------------------------------------- Photo
\* Photo::by_path: SELECT .. WHERE source_path = ?
by_path(S, path) == {r \in S.photos : r.source_path = path}

\* An unmark_all that leaves the marks as they are.
Photo_unmark_none(S) == S

\* Photo::unmark_all: UPDATE photos SET mark = FALSE
Photo_unmark_all(S) ==
    [S EXCEPT !.photos = {[r EXCEPT !.mark = FALSE] : r \in @}]

\* A mark without its WHERE clause: every row is marked.
Photo_mark_every(S, id) ==
    [S EXCEPT !.photos = {[r EXCEPT !.mark = TRUE] : r \in @}]

\* Photo::mark: UPDATE photos SET mark = TRUE WHERE id = ?
Photo_mark(S, id) ==
    [S EXCEPT !.photos =
        {IF r.id = id THEN [r EXCEPT !.mark = TRUE] ELSE r : r \in @}]

\* Photo::delete: DELETE FROM photos WHERE id = ?
Photo_delete(S, fk, id) ==
    [S EXCEPT
        !.photos = {r \in @ : r.id # id},
        !.posts_photos = Cascade(fk, @, {r \in Rows(@) : r.photo_id = id})]

\* Photo::delete_unmarked: DELETE FROM photos WHERE mark = FALSE
Photo_delete_unmarked(S, fk) ==
    [S EXCEPT
        !.photos = {r \in @ : r.mark},
        !.posts_photos =
            Cascade(fk, @, {r \in Rows(@) :
                              \E q \in S.photos : ~q.mark /\ q.id = r.photo_id})]

\* The row Photo::new inserts: mark takes the column's DEFAULT TRUE.
PhotoRow(path, is_private, file) ==
    [id |-> PhotoId(path), mark |-> TRUE, is_private |-> is_private,
     source_path |-> path, source_time |-> file.mtime,
     image_large_jpg |-> EncodeLarge(file.bytes),
     image_small_jpg |-> EncodeSmall(file.bytes)]

\* An INSERT INTO photos on a table without PRIMARY KEY and UNIQUE.
InsertPhotoUnchecked(S, row) == Ok([S EXCEPT !.photos = @ \cup {row}])

\* INSERT INTO photos: id TEXT PRIMARY KEY, source_path TEXT NOT NULL UNIQUE.
InsertPhoto(S, row) ==
    IF \E r \in S.photos : r.id = row.id \/ r.source_path = row.source_path
    THEN Err(S)
    ELSE Ok([S EXCEPT !.photos = @ \cup {row}])

\* INSERT INTO posts_photos (post_id, photo_id)
InsertPostPhoto(S, fk, post_id, photo_id) ==
    IF Referenced(fk, S.posts, post_id) /\ Referenced(fk, S.photos, photo_id)
    THEN Ok([S EXCEPT !.posts_photos =
                Append(@, [post_id |-> post_id, photo_id |-> photo_id])])
    ELSE Err(S)

\* The byte of a character dates are written with.
CharCode(c) ==
    CASE c = "-" -> 45
      [] c = "0" -> 48 [] c = "1" -> 49 [] c = "2" -> 50 [] c = "3" -> 51
      [] c = "4" -> 52 [] c = "5" -> 53 [] c = "6" -> 54 [] c = "7" -> 55
      [] c = "8" -> 56 [] c = "9" -> 57
      [] OTHER -> 97

RECURSIVE TextLess(_, _)
\* a < b for two TEXT values (BINARY collation: byte by byte, a prefix first).
TextLess(a, b) ==
    IF b = << >> THEN FALSE
    ELSE IF a = << >> THEN TRUE
    ELSE IF CharCode(Head(a)) # CharCode(Head(b))
         THEN CharCode(Head(a)) < CharCode(Head(b))
         ELSE TextLess(Tail(a), Tail(b))

\* Photo::from_row: the five columns Photo::list selects.
Photo_from_row(r) ==
    [id |-> r.id, mark |-> r.mark, is_private |-> r.is_private,
     source_path |-> r.source_path, source_time |-> r.source_time]

\* FROM photos JOIN posts_photos ON .. JOIN posts ON .. [WHERE
\* posts_photos.post_id = ?]: one row per posts_photos row whose photo and
\* post exist, here in the rowid order of posts_photos.
ListJoin(S, post_id) ==
    LET linked == SelectSeq(S.posts_photos, LAMBDA l :
                      /\ \E r \in S.photos : r.id = l.photo_id
                      /\ \E q \in S.posts : q.id = l.post_id
                      /\ IsSome(post_id) => l.post_id = Unwrap(post_id))
    IN  [i \in DOMAIN linked |->
            [photo |-> Photo_from_row(CHOOSE r \in S.photos : r.id = linked[i].photo_id),
             date |-> (CHOOSE q \in S.posts : q.id = linked[i].post_id).date]]

\* ORDER BY posts.date DESC, photos.source_time DESC: x sorts before y.
ListBefore(x, y) ==
    \/ TextLess(y.date, x.date)
    \/ x.date = y.date /\ x.photo.source_time > y.photo.source_time

RECURSIVE ListOrderBy(_)
\* The rows sorted; rows that compare equal keep the order they came in.
ListOrderBy(rows) ==
    IF rows = << >> THEN << >>
    ELSE LET x == rows[Len(rows)]
             sorted == ListOrderBy(SubSeq(rows, 1, Len(rows) - 1))
             k == Cardinality({i \in DOMAIN sorted : ~ListBefore(x, sorted[i])})
         IN  SubSeq(sorted, 1, k) \o <<x>> \o SubSeq(sorted, k + 1, Len(sorted))

\* The statement Photo::list builds is accepted by SQLite: its grammar has
\* OFFSET only after LIMIT.
ListQueryOk(offset, limit) == IsSome(limit) \/ ~IsSome(offset)

\* [LIMIT limit] [OFFSET offset] on the sorted rows.
ListWindow(S, post_id, offset, limit) ==
    LET sorted == ListOrderBy(ListJoin(S, post_id))
        first == IF IsSome(offset) THEN Unwrap(offset) + 1 ELSE 1
        last == IF IsSome(limit) /\ first + Unwrap(limit) - 1 < Len(sorted)
                THEN first + Unwrap(limit) - 1 ELSE Len(sorted)
    IN  SubSeq(sorted, first, last)

\* Photo::list: the query, then the private photos filtered out of its result
\* and counted; .expect panics on a statement SQLite rejects (ok = FALSE).
Photo_list(S, include_private, post_id, offset, limit) ==
    IF ~ListQueryOk(offset, limit)
    THEN [ok |-> FALSE, photos |-> << >>, hidden |-> 0]
    ELSE LET all_photos == ListWindow(S, post_id, offset, limit)
             shown == SelectSeq(all_photos,
                          LAMBDA x : ~x.photo.is_private \/ include_private)
         IN  [ok |-> TRUE,
              photos |-> [i \in DOMAIN shown |-> shown[i].photo],
              hidden |-> Len(all_photos) - Len(shown)]

\* ----------------------------------------------------- Asset, File, User
\* Asset::delete_all: DELETE FROM styles
Asset_delete_all(S, fk) ==
    [S EXCEPT
        !.styles = {},
        !.posts_assets =
            Cascade(fk, @, {r \in Rows(@) : \E q \in S.styles : q.id = r.asset_id})]

\* Asset::new: INSERT INTO styles (name, data) .. RETURNING id
Asset_new(S, p, n) ==
    [S EXCEPT !.styles =
        @ \cup {[id |-> NextRowid(@), name |-> n, data |-> AssetData(p, n)]}]

\* INSERT INTO posts_assets (post_id, asset_id)
InsertPostAsset(S, fk, post_id, asset_id) ==
    IF Referenced(fk, S.posts, post_id) /\ Referenced(fk, S.styles, asset_id)
    THEN Ok([S EXCEPT !.posts_assets =
                Append(@, [post_id |-> post_id, asset_id |-> asset_id])])
    ELSE Err(S)

\* A delete_all that keeps the rows.
File_delete_none(S) == S

\* File::delete_all: DELETE FROM files
File_delete_all(S) == [S EXCEPT !.files = {}]

\* A File::new that binds the two texts the other way round.
File_new_swapped(S, slot) ==
    [S EXCEPT !.files =
        @ \cup {[id |-> NextRowid(@), name |-> slot[1], path |-> slot[2],
                 data |-> FileData(slot)]}]

\* File::new: name is the file's name, path the parent directory's last
\* component.
File_new(S, slot) ==
    [S EXCEPT !.files =
        @ \cup {[id |-> NextRowid(@), name |-> slot[2], path |-> slot[1],
                 data |-> FileData(slot)]}]

\* File::by_path_and_name: SELECT id, name, path, data FROM files WHERE path = ?
\* AND name = ?, fetch_optional: the first row found, as a File (id, name, path).
File_by_path_and_name(S, path, name) ==
    LET found == {r \in S.files : r.path = path /\ r.name = name}
    IN  IF found = {} THEN None
        ELSE LET first == CHOOSE r \in found : \A q \in found : r.id <= q.id
             IN  Some([id |-> first.id, name |-> first.name, path |-> first.path])

\* File::get_data: SELECT data FROM files WHERE id = ?
File_get_data(S, id) == (CHOOSE r \in S.files : r.id = id).data

\* config.users and User::key_hash (a DefaultHasher digest, formatted).
ConfigUsers == << [key |-> "secret", group |-> "family"] >>
KeyHash(key) == Format016x(IF key = "secret" THEN 7 ELSE 8)

\* User::delete_all: DELETE FROM users
User_delete_all(S) == [S EXCEPT !.users = {}]

\* User::new: INSERT INTO users; key_hash TEXT PRIMARY KEY.
User_new(S, u) ==
    IF \E r \in S.users : r.key_hash = KeyHash(u.key) THEN Err(S)
    ELSE Ok([S EXCEPT !.users =
                @ \cup {[key_hash |-> KeyHash(u.key), group_name |-> u.group]}])

\* ----------------------------------------------------------------- build
\* An entry of the history of writes: the statement, and the post directory
\* Post::new was called on ("-": a statement of build itself).
Write(op, dir) == [op |-> op, dir |-> dir]

SetStore(S) ==
    /\ posts' = S.posts /\ posts_tags' = S.posts_tags /\ photos' = S.photos
    /\ posts_photos' = S.posts_photos /\ styles' = S.styles
    /\ posts_assets' = S.posts_assets /\ files' = S.files /\ users' = S.users

\* What fs::read_dir yields for the directories of the tree.
ReadPostsDir == SelectSeq(read_dir, LAMBDA p : tree_posts[p].present)
ReadFilesDir == SelectSeq(FileSlotOrder, LAMBDA s : s \in tree_files)
\* if assets_path.exists() { for asset_path in fs::read_dir(assets_path) .. }
ReadAssetsDir(p) ==
    IF "assets" \in tree_posts[p].dirs
    THEN SelectSeq(AssetNameOrder, LAMBDA n : n \in tree_posts[p].assets)
    ELSE << >>

\* A listing that yields the usual entry for a photos directory that is not
\* there.
ReadPhotosDirPhantom(p, priv) ==
    IF PhotosDir(priv) \in tree_posts[p].dirs
    THEN SelectSeq(PhotoNameOrder, LAMBDA n : tree_posts[p].photos[<<priv, n>>].mtime > 0)
    ELSE PhotoNameOrder

\* if let Ok(photos) = fs::read_dir(&photos_path) { for photo_path in photos .. }
ReadPhotosDir(p, priv) ==
    IF PhotosDir(priv) \in tree_posts[p].dirs
    THEN SelectSeq(PhotoNameOrder, LAMBDA n : tree_posts[p].photos[<<priv, n>>].mtime > 0)
    ELSE << >>

\* The photo file Photo::new is called on, and its path.
CurFile == tree_posts[cur_post].photos[<<cur_private, Head(todo)>>]
CurPath == PhotoPath(cur_post, cur_private, Head(todo))

\* main: `build` starts; config, connect and the setup() calls (CREATE TABLE
\* IF NOT EXISTS) leave the store as it is.
BuildStart ==
    /\ Stopped /\ n_builds < MaxBuilds
    /\ pc' = "delete_posts"
    /\ start' = Store /\ unchanged' = (pc = "done")
    /\ transformed' = {} /\ handled' = {} /\ photo_writes' = {}
    /\ n_builds' = n_builds + 1
    /\ failure' = "none"
    /\ ops' = << >>
    /\ origin' = IF pc = "aborted" /\ failure = "crash"
                 THEN (IF IsSome(origin) THEN origin ELSE Some(start))
                 ELSE None
    /\ UNCHANGED <<tree_vars, foreign_keys, img_vars, web_vars, cur_metadata, store_vars, todo_posts,
                   cur_post, todo, cur_private, cur_id, generated, n_edits>>

\* Post::delete_all(&db)?
DeletePosts ==
    /\ pc = "delete_posts"
    /\ ops' = Append(ops, Write("delete_posts", "-"))
    /\ SetStore(Post_delete_all(Store, foreign_keys))
    /\ pc' = "unmark_all"
    /\ UNCHANGED <<tree_vars, foreign_keys, img_vars, web_vars, cur_metadata, todo_posts, cur_post, todo,
                   cur_private, cur_id, hist_vars, failure>>

\* Photo::unmark_all(&db)?
UnmarkAll ==
    /\ pc = "unmark_all"
    /\ ops' = Append(ops, Write("unmark_all", "-"))
    /\ SetStore(Photo_unmark_all(Store))
    /\ pc' = "delete_files"
    /\ UNCHANGED <<tree_vars, foreign_keys, img_vars, web_vars, cur_metadata, todo_posts, cur_post, todo,
                   cur_private, cur_id, hist_vars, failure>>

\* File::delete_all(&db)?
DeleteFiles ==
    /\ pc = "delete_files"
    /\ ops' = Append(ops, Write("delete_files", "-"))
    /\ SetStore(File_delete_all(Store))
    /\ pc' = "delete_assets"
    /\ UNCHANGED <<tree_vars, foreign_keys, img_vars, web_vars, cur_metadata, todo_posts, cur_post, todo,
                   cur_private, cur_id, hist_vars, failure>>

\* Asset::delete_all(&db)?
DeleteAssets ==
    /\ pc = "delete_assets"
    /\ ops' = Append(ops, Write("delete_assets", "-"))
    /\ SetStore(Asset_delete_all(Store, foreign_keys))
    /\ pc' = "delete_users"
    /\ UNCHANGED <<tree_vars, foreign_keys, img_vars, web_vars, cur_metadata, todo_posts, cur_post, todo,
                   cur_private, cur_id, hist_vars, failure>>

\* User::delete_all(&db)?, entering the loop over config.users
DeleteUsers ==
    /\ pc = "delete_users"
    /\ ops' = Append(ops, Write("delete_users", "-"))
    /\ SetStore(User_delete_all(Store))
    /\ pc' = "users" /\ todo' = ConfigUsers
    /\ UNCHANGED <<tree_vars, foreign_keys, img_vars, web_vars, cur_metadata, todo_posts, cur_post,
                   cur_private, cur_id, hist_vars, failure>>

\* User::new(&db, &user.key, &user.group)?
NewUser ==
    /\ pc = "users" /\ todo # << >>
    /\ ops' = Append(ops, Write("insert_user", "-"))
    /\ LET r == User_new(Store, Head(todo))
       IN  /\ SetStore(r.store)
           /\ IF r.ok THEN pc' = "users" /\ todo' = Tail(todo)
              ELSE pc' = "aborted" /\ todo' = todo
           /\ failure' = IF r.ok THEN failure ELSE "store"
    /\ UNCHANGED <<tree_vars, foreign_keys, img_vars, web_vars, cur_metadata, todo_posts, cur_post,
                   cur_private, cur_id, hist_vars>>

\* the users loop ends; fs::read_dir(&config.files_path).expect(..)
UsersDone ==
    /\ pc = "users" /\ todo = << >>
    /\ UNCHANGED ops
    /\ IF "files" \in roots
       THEN pc' = "files" /\ todo' = ReadFilesDir /\ failure' = failure
       ELSE pc' = "aborted" /\ todo' = todo /\ failure' = "root"
    /\ UNCHANGED <<tree_vars, foreign_keys, img_vars, web_vars, cur_metadata, store_vars, todo_posts, cur_post,
                   cur_private, cur_id, hist_vars>>

\* File::new(&db, &parent.path(), &entry?.path())?
NewFile ==
    /\ pc = "files" /\ todo # << >>
    /\ ops' = Append(ops, Write("insert_file", "-"))
    /\ SetStore(File_new(Store, Head(todo)))
    /\ todo' = Tail(todo)
    /\ UNCHANGED <<tree_vars, foreign_keys, img_vars, web_vars, cur_metadata, pc, todo_posts, cur_post,
                   cur_private, cur_id, hist_vars, failure>>

\* the files loop ends; fs::read_dir(&config.posts_path).expect(..)
FilesDone ==
    /\ pc = "files" /\ todo = << >>
    /\ UNCHANGED ops
    /\ IF "posts" \in roots
       THEN pc' = "posts" /\ todo_posts' = ReadPostsDir /\ failure' = failure
       ELSE pc' = "aborted" /\ todo_posts' = todo_posts /\ failure' = "root"
    /\ UNCHANGED <<tree_vars, foreign_keys, img_vars, web_vars, cur_metadata, store_vars, cur_post, todo,
                   cur_private, cur_id, hist_vars>>

\* A Post::new that keeps a generated id in memory and never writes it to the
\* sidecar.
LoadPostUnsaved ==
    /\ pc = "posts" /\ todo_posts # << >>
    /\ LET p == Head(todo_posts)
           dir == tree_posts[p]
           loaded == from_json_file(dir)
       IN  /\ cur_post' = p
           /\ todo_posts' = Tail(todo_posts)
           /\ IF ~dir.readable
              THEN /\ pc' = "aborted" /\ failure' = "read"
                   /\ UNCHANGED <<tree_posts, generated, cur_metadata, ops>>
              ELSE /\ pc' = "post_insert" /\ failure' = failure
                   /\ IF IsSome(loaded.id)
                      THEN /\ cur_metadata' = [loaded EXCEPT !.tags = NormalizeTags(@)]
                           /\ UNCHANGED <<tree_posts, generated, ops>>
                      ELSE \E random \in RandomU64 :
                             LET with_id == [loaded EXCEPT
                                               !.id = Some(Format016x(random))]
                             IN  /\ tree_posts' = tree_posts
                                 /\ cur_metadata' = [with_id EXCEPT
                                                   !.tags = NormalizeTags(@)]
                                 /\ generated' = [generated EXCEPT ![p] = @ + 1]
                                 /\ ops' = ops
    /\ UNCHANGED <<tree_files, read_dir, roots, foreign_keys, img_vars, web_vars, store_vars, todo,
                   cur_private, cur_id, start, unchanged, transformed, handled,
                   photo_writes, n_edits, n_builds, origin>>

\* Post::new, up to the INSERT: read the content file and the sidecar; an
\* error returns from build.  A sidecar without id gets a random one, written
\* back at once (to_json_file rewrites the sidecar as it was loaded).
LoadPost ==
    /\ pc = "posts" /\ todo_posts # << >>
    /\ LET p == Head(todo_posts)
           dir == tree_posts[p]
           loaded == from_json_file(dir)
       IN  /\ cur_post' = p
           /\ todo_posts' = Tail(todo_posts)
           /\ IF ~dir.readable
              THEN /\ pc' = "aborted" /\ failure' = "read"
                   /\ UNCHANGED <<tree_posts, generated, cur_metadata, ops>>
              ELSE /\ pc' = "post_insert" /\ failure' = failure
                   /\ IF IsSome(loaded.id)
                      THEN /\ cur_metadata' = [loaded EXCEPT !.tags = NormalizeTags(@)]
                           /\ UNCHANGED <<tree_posts, generated, ops>>
                      ELSE \E random \in RandomU64 :
                             LET with_id == [loaded EXCEPT
                                               !.id = Some(Format016x(random))]
                             IN  /\ tree_posts' = [tree_posts EXCEPT
                                                     ![p] = to_json_file(@, with_id)]
                                 /\ cur_metadata' = [with_id EXCEPT
                                                   !.tags = NormalizeTags(@)]
                                 /\ generated' = [generated EXCEPT ![p] = @ + 1]
                                 /\ ops' = Append(ops, Write("to_json_file", p))
    /\ UNCHANGED <<tree_files, read_dir, roots, foreign_keys, img_vars, web_vars, store_vars, todo,
                   cur_private, cur_id, start, unchanged, transformed, handled,
                   photo_writes, n_edits, n_builds, origin>>

\* A Post::new that goes on after a rejected INSERT INTO posts.
NewPostIgnoringError ==
    /\ pc = "post_insert"
    /\ ops' = Append(ops, Write("insert_post", cur_post))
    /\ LET r == InsertPost(Store, PostRow(cur_post, cur_metadata))
       IN  SetStore(r.store)
    /\ pc' = "assets" /\ todo' = ReadAssetsDir(cur_post)
    /\ UNCHANGED <<tree_vars, foreign_keys, img_vars, web_vars, cur_metadata, todo_posts, cur_post,
                   cur_private, cur_id, hist_vars, failure>>

\* Post::new: INSERT INTO posts .. ; then the assets directory is listed.
NewPost ==
    /\ pc = "post_insert"
    /\ ops' = Append(ops, Write("insert_post", cur_post))
    /\ LET r == InsertPost(Store, PostRow(cur_post, cur_metadata))
       IN  /\ SetStore(r.store)
           /\ IF r.ok THEN pc' = "assets" /\ todo' = ReadAssetsDir(cur_post)
              ELSE pc' = "aborted" /\ todo' = todo
           /\ failure' = IF r.ok THEN failure ELSE "store"
    /\ UNCHANGED <<tree_vars, foreign_keys, img_vars, web_vars, cur_metadata, todo_posts, cur_post,
                   cur_private, cur_id, hist_vars>>

\* Asset::new(db, &asset_path?.path())?
NewAsset ==
    /\ pc = "assets" /\ todo # << >>
    /\ ops' = Append(ops, Write("insert_asset", cur_post))
    /\ SetStore(Asset_new(Store, cur_post, Head(todo)))
    /\ cur_id' = Some(NextRowid(styles))
    /\ pc' = "asset_link"
    /\ UNCHANGED <<tree_vars, foreign_keys, img_vars, web_vars, cur_metadata, todo_posts, cur_post, todo,
                   cur_private, hist_vars, failure>>

\* INSERT INTO posts_assets (post_id, asset_id)
LinkAsset ==
    /\ pc = "asset_link"
    /\ ops' = Append(ops, Write("link_asset", cur_post))
    /\ LET r == InsertPostAsset(Store, foreign_keys,
                                Unwrap(cur_metadata.id), Unwrap(cur_id))
       IN  /\ SetStore(r.store)
           /\ IF r.ok THEN pc' = "assets" /\ todo' = Tail(todo)
              ELSE pc' = "aborted" /\ todo' = todo
           /\ failure' = IF r.ok THEN failure ELSE "store"
    /\ UNCHANGED <<tree_vars, foreign_keys, img_vars, web_vars, cur_metadata, todo_posts, cur_post,
                   cur_private, cur_id, hist_vars>>

\* the assets loop ends; fs::read_dir(&public_photos_path)
AssetsDone ==
    /\ pc = "assets" /\ todo = << >>
    /\ UNCHANGED ops
    /\ pc' = "photos" /\ cur_private' = FALSE
    /\ todo' = ReadPhotosDir(cur_post, FALSE)
    /\ UNCHANGED <<tree_vars, foreign_keys, img_vars, web_vars, cur_metadata, store_vars, todo_posts, cur_post,
                   cur_id, hist_vars, failure>>

\* Photo::new, first half: Photo::by_path, then either mark the row that is up
\* to date and return it, or delete the outdated row, or find none.
\* A change test that takes every existing row for up to date.
UpToDateAlways(existing, source_time) == TRUE

\* A change test that takes every existing row for outdated.
UpToDateNever(existing, source_time) == FALSE

\* existing_photo.source_time >= source_time
UpToDate(existing, source_time) == existing.source_time >= source_time

LookupPhoto ==
    /\ pc = "photos" /\ todo # << >>
    /\ LET found == by_path(Store, CurPath)
       IN  IF found = {}
           THEN /\ pc' = "photo_make"
                /\ UNCHANGED <<store_vars, cur_id, handled, photo_writes, ops>>
           ELSE LET existing == CHOOSE r \in found : TRUE
                IN  IF UpToDate(existing, CurFile.mtime)
                    THEN /\ SetStore(Photo_mark(Store, existing.id))
                         /\ cur_id' = Some(existing.id)
                         /\ handled' = handled \cup {CurPath}
                         /\ pc' = "photo_link"
                         /\ ops' = Append(ops, Write("mark", cur_post))
                         /\ UNCHANGED photo_writes
                    ELSE /\ SetStore(Photo_delete(Store, foreign_keys, existing.id))
                         /\ photo_writes' = photo_writes \cup {<<"delete", existing.source_path>>}
                         /\ pc' = "photo_make"
                         /\ ops' = Append(ops, Write("delete", cur_post))
                         /\ UNCHANGED <<cur_id, handled>>
    /\ UNCHANGED <<tree_vars, foreign_keys, img_vars, web_vars, cur_metadata, todo_posts, cur_post, todo,
                   cur_private, start, unchanged, transformed, generated,
                   n_edits, n_builds, origin, failure>>

\* Photo::new, second half: decode (a panic on a file the decoder rejects),
\* resize, encode twice, INSERT INTO photos (a panic when the store rejects it).
MakePhoto ==
    /\ pc = "photo_make"
    /\ IF ~CurFile.ok
       THEN /\ pc' = "aborted" /\ failure' = "decode"
            /\ UNCHANGED <<store_vars, cur_id, transformed, handled, photo_writes,
                           ops>>
       ELSE LET r == InsertPhoto(Store, PhotoRow(CurPath, cur_private, CurFile))
            IN  /\ transformed' = transformed \cup {CurPath}
                /\ ops' = Append(ops, Write("insert_photo", cur_post))
                /\ SetStore(r.store)
                /\ IF r.ok
                   THEN /\ cur_id' = Some(PhotoId(CurPath))
                        /\ handled' = handled \cup {CurPath}
                        /\ photo_writes' = photo_writes \cup {<<"insert", CurPath>>}
                        /\ pc' = "photo_link" /\ failure' = failure
                   ELSE /\ pc' = "aborted" /\ failure' = "store"
                        /\ UNCHANGED <<cur_id, handled, photo_writes>>
    /\ UNCHANGED <<tree_vars, foreign_keys, img_vars, web_vars, cur_metadata, todo_posts, cur_post, todo,
                   cur_private, start, unchanged, generated, n_edits, n_builds,
                   origin>>

\* INSERT INTO posts_photos (post_id, photo_id)
LinkPhoto ==
    /\ pc = "photo_link"
    /\ ops' = Append(ops, Write("link_photo", cur_post))
    /\ LET r == InsertPostPhoto(Store, foreign_keys,
                                Unwrap(cur_metadata.id), Unwrap(cur_id))
       IN  /\ SetStore(r.store)
           /\ IF r.ok THEN pc' = "photos" /\ todo' = Tail(todo)
              ELSE pc' = "aborted" /\ todo' = todo
           /\ failure' = IF r.ok THEN failure ELSE "store"
    /\ UNCHANGED <<tree_vars, foreign_keys, img_vars, web_vars, cur_metadata, todo_posts, cur_post,
                   cur_private, cur_id, hist_vars>>

\* the public photos loop ends; fs::read_dir(&private_photos_path)
PublicPhotosDone ==
    /\ pc = "photos" /\ todo = << >> /\ ~cur_private
    /\ UNCHANGED ops
    /\ cur_private' = TRUE
    /\ todo' = ReadPhotosDir(cur_post, TRUE)
    /\ UNCHANGED <<tree_vars, foreign_keys, img_vars, web_vars, cur_metadata, store_vars, pc, todo_posts,
                   cur_post, cur_id, hist_vars, failure>>

\* the private photos loop ends
PrivatePhotosDone ==
    /\ pc = "photos" /\ todo = << >> /\ cur_private
    /\ UNCHANGED ops
    /\ pc' = "set_tags"
    /\ UNCHANGED <<tree_vars, foreign_keys, img_vars, web_vars, cur_metadata, store_vars, todo_posts, cur_post,
                   todo, cur_private, cur_id, hist_vars, failure>>

\* A Post::new that ends with the sweep: the unmarked photo rows are deleted
\* after every post.
SetTagsAndSweep ==
    /\ pc = "set_tags"
    /\ ops' = ops \o <<Write("set_tags", cur_post), Write("delete_unmarked", "-")>>
    /\ LET r == set_tags(Store, foreign_keys, Unwrap(cur_metadata.id), cur_metadata.tags)
       IN  /\ SetStore(Photo_delete_unmarked(r.store, foreign_keys))
           /\ pc' = IF r.ok THEN "posts" ELSE "aborted"
           /\ failure' = IF r.ok THEN failure ELSE "store"
    /\ UNCHANGED <<tree_vars, foreign_keys, img_vars, web_vars, cur_metadata, todo_posts, cur_post, todo,
                   cur_private, cur_id, hist_vars>>

\* post.set_tags(db, &metadata.tags)?; Ok(post)
SetTags ==
    /\ pc = "set_tags"
    /\ ops' = Append(ops, Write("set_tags", cur_post))
    /\ LET r == set_tags(Store, foreign_keys, Unwrap(cur_metadata.id), cur_metadata.tags)
       IN  /\ SetStore(r.store)
           /\ pc' = IF r.ok THEN "posts" ELSE "aborted"
           /\ failure' = IF r.ok THEN failure ELSE "store"
    /\ UNCHANGED <<tree_vars, foreign_keys, img_vars, web_vars, cur_metadata, todo_posts, cur_post, todo,
                   cur_private, cur_id, hist_vars>>

\* the posts loop ends; Photo::delete_unmarked(&db)?; Ok(())
DeleteUnmarked ==
    /\ pc = "posts" /\ todo_posts = << >>
    /\ ops' = Append(ops, Write("delete_unmarked", "-"))
    /\ SetStore(Photo_delete_unmarked(Store, foreign_keys))
    /\ photo_writes' = photo_writes \cup
          {<<"delete", r.source_path>> : r \in {q \in photos : ~q.mark}}
    /\ pc' = "done"
    /\ UNCHANGED <<tree_vars, foreign_keys, img_vars, web_vars, cur_metadata, todo_posts, cur_post, todo,
                   cur_private, cur_id, start, unchanged, transformed, handled,
                   generated, n_edits, n_builds, origin, failure>>

\* ------------------------------------------------- the author's edits
\* Between builds the author changes the content tree.
Edited ==
    /\ Stopped /\ n_edits < MaxEdits
    /\ UNCHANGED ops
    /\ n_edits' = n_edits + 1
    /\ pc' = "idle"
    /\ UNCHANGED <<read_dir, foreign_keys, img_vars, web_vars, cur_metadata, store_vars, todo_posts, cur_post,
                   todo, cur_private, cur_id, start, unchanged, transformed,
                   handled, photo_writes, n_builds, origin, failure>>

\* A photo file is rewritten: new bytes, a later modification time.
TouchPhoto ==
    \E p \in PostDirs, s \in Visibilities \X PhotoNames :
        LET f == tree_posts[p].photos[s]
        IN  /\ tree_posts[p].present /\ f.mtime > 0 /\ f.mtime < MaxTime
            /\ tree_posts' = [tree_posts EXCEPT ![p].photos[s] =
                    PhotoFile(f.mtime + 1, IF f.bytes = 1 THEN 2 ELSE 1, f.ok)]
            /\ Edited /\ UNCHANGED <<tree_files, generated, roots>>

\* A photo file is added (to a directory created for it when it is not
\* there), readable by the decoder or not.
AddPhoto ==
    \E p \in PostDirs, s \in Visibilities \X PhotoNames, t \in 1..MaxTime, k \in BOOLEAN :
        /\ tree_posts[p].present /\ tree_posts[p].photos[s].mtime = 0
        /\ tree_posts' = [tree_posts EXCEPT ![p].photos[s] = PhotoFile(t, 1, k),
                                            ![p].dirs = @ \cup {PhotosDir(s[1])}]
        /\ Edited /\ UNCHANGED <<tree_files, generated, roots>>

\* A photo file is removed.
RemovePhoto ==
    \E p \in PostDirs, s \in Visibilities \X PhotoNames :
        /\ tree_posts[p].present /\ tree_posts[p].photos[s].mtime > 0
        /\ tree_posts' = [tree_posts EXCEPT ![p].photos[s] = NoFile]
        /\ Edited /\ UNCHANGED <<tree_files, generated, roots>>

\* The tags of a sidecar are rewritten.
EditTags ==
    \E p \in PostDirs, t \in AuthorTags :
        /\ tree_posts[p].present /\ tree_posts[p].tags # t
        /\ tree_posts' = [tree_posts EXCEPT ![p].tags = t]
        /\ Edited /\ UNCHANGED <<tree_files, generated, roots>>

\* The permalink of a sidecar is set, changed or removed.
EditPermalink ==
    \E p \in PostDirs, l \in AuthorPermalinks :
        /\ tree_posts[p].present /\ tree_posts[p].permalink # l
        /\ tree_posts' = [tree_posts EXCEPT ![p].permalink = l]
        /\ Edited /\ UNCHANGED <<tree_files, generated, roots>>

\* An asset file is added or removed.
ToggleAsset ==
    \E p \in PostDirs, n \in AssetNames :
        /\ tree_posts[p].present
        /\ tree_posts' = [tree_posts EXCEPT ![p].assets =
                IF n \in @ THEN @ \ {n} ELSE @ \cup {n},
                                            ![p].dirs = @ \cup {"assets"}]
        /\ Edited /\ UNCHANGED <<tree_files, generated, roots>>

\* A sub-directory of a post is removed with its files, or created empty.
ToggleDir ==
    \E p \in PostDirs, d \in SubDirs :
        /\ tree_posts[p].present
        /\ tree_posts' = [tree_posts EXCEPT ![p] =
              IF d \notin @.dirs THEN [@ EXCEPT !.dirs = @ \cup {d}]
              ELSE [@ EXCEPT
                      !.dirs = @ \ {d},
                      !.assets = IF d = "assets" THEN {} ELSE @,
                      !.photos = [s \in Visibilities \X PhotoNames |->
                                    IF PhotosDir(s[1]) = d THEN NoFile ELSE @[s]]]]
        /\ Edited /\ UNCHANGED <<tree_files, generated, roots>>

\* A static file is added or removed.
ToggleFile ==
    \E s \in FileSlots :
        /\ tree_files' = IF s \in tree_files THEN tree_files \ {s}
                         ELSE tree_files \cup {s}
        /\ Edited /\ UNCHANGED <<tree_posts, generated, roots>>

\* A sidecar is broken (no longer JSON) or repaired.
ToggleReadable ==
    \E p \in PostDirs :
        /\ tree_posts[p].present
        /\ tree_posts' = [tree_posts EXCEPT ![p].readable = ~@]
        /\ Edited /\ UNCHANGED <<tree_files, generated, roots>>

\* A post directory is removed, or a new one is created.
TogglePost ==
    \E p \in PostDirs, id \in {None, Some(AuthorId)} :
        /\ tree_posts[p].present => id = None
        /\ tree_posts' = [tree_posts EXCEPT ![p] =
                IF @.present THEN AbsentPost ELSE SeedPost(p, id)]
        /\ generated' = [generated EXCEPT ![p] = 0]
        /\ Edited /\ UNCHANGED <<tree_files, roots>>

\* A root directory is taken away (removed, or made unreadable) or restored.
ToggleRoot ==
    \E d \in RootDirs :
        /\ roots' = IF d \in roots THEN roots \ {d} ELSE roots \cup {d}
        /\ Edited /\ UNCHANGED <<tree_posts, tree_files, generated>>

Next ==
    \/ BuildStart \/ DeletePosts \/ UnmarkAll \/ DeleteFiles \/ DeleteAssets
    \/ DeleteUsers \/ NewUser \/ UsersDone \/ NewFile \/ FilesDone
    \/ LoadPost \/ NewPost \/ NewAsset \/ LinkAsset \/ AssetsDone
    \/ LookupPhoto \/ MakePhoto \/ LinkPhoto \/ PublicPhotosDone
    \/ PrivatePhotosDone \/ SetTags \/ DeleteUnmarked
    \/ TouchPhoto \/ AddPhoto \/ RemovePhoto \/ EditTags \/ EditPermalink
    \/ ToggleAsset \/ ToggleDir
    \/ ToggleFile \/ ToggleReadable \/ TogglePost \/ ToggleRoot

Spec == Init /\ [][Next]_vars

\* -------------------------------------------------- builds that are killed
\* The process is killed between two statements of build: nothing of the
\* build runs any more, the store and the tree stay as they are.  The build
\* that follows a killed one (origin is set) is left to run.
Crash ==
    /\ ~Stopped /\ origin = None
    /\ pc' = "aborted" /\ failure' = "crash"
    /\ UNCHANGED <<tree_vars, foreign_keys, img_vars, web_vars, cur_metadata, store_vars, todo_posts,
                   cur_post, todo, cur_private, cur_id, hist_vars, ops>>

CrashNext ==
    \/ BuildStart \/ DeletePosts \/ UnmarkAll \/ DeleteFiles \/ DeleteAssets
    \/ DeleteUsers \/ NewUser \/ UsersDone \/ NewFile \/ FilesDone
    \/ LoadPost \/ NewPost \/ NewAsset \/ LinkAsset \/ AssetsDone
    \/ LookupPhoto \/ MakePhoto \/ LinkPhoto \/ PublicPhotosDone
    \/ PrivatePhotosDone \/ SetTags \/ DeleteUnmarked \/ Crash
    \/ TouchPhoto \/ RemovePhoto

\* A fresh database next to a tree of two posts.
CrashInit ==
    /\ scale_in = SeedImage /\ scale_out = None
    /\ tree_posts = [p \in PostDirs |->
                        SeedPost(p, IF p = "p1" THEN None ELSE Some(AuthorId))]
    /\ tree_files = {<<"styles", "main.css">>}
    /\ read_dir \in DirOrders
    /\ roots = RootDirs
    /\ foreign_keys \in BOOLEAN
    /\ IdleInit

CrashSpec == CrashInit /\ [][CrashNext]_vars

\* ------------------------------------------- a build, run in one piece
\* What a build that nothing interrupts makes of a store, on the tree as it
\* is: the statements of build, Post::new and Photo::new in their order, each
\* working on the result of the one before; ok is FALSE from the first
\* statement that fails.
RECURSIVE build_users(_, _)
\* for user in &config.users { User::new(..)? }
build_users(r, users_todo) ==
    IF ~r.ok \/ users_todo = << >> THEN r
    ELSE build_users(User_new(r.store, Head(users_todo)), Tail(users_todo))

RECURSIVE build_files(_, _)
\* the two loops over files_path
build_files(r, files_todo) ==
    IF ~r.ok \/ files_todo = << >> THEN r
    ELSE build_files(Ok(File_new(r.store, Head(files_todo))), Tail(files_todo))

RECURSIVE Post_new_assets(_, _, _, _)
\* Post::new: Asset::new and INSERT INTO posts_assets for every asset file
Post_new_assets(r, fk, p, assets_todo) ==
    IF ~r.ok \/ assets_todo = << >> THEN r
    ELSE Post_new_assets(
            InsertPostAsset(Asset_new(r.store, p, Head(assets_todo)), fk,
                            Unwrap(tree_posts[p].id), NextRowid(r.store.styles)),
            fk, p, Tail(assets_todo))

\* Photo::new: the row for the path is marked, or replaced, or made.
Photo_new(S, fk, p, priv, n) ==
    LET path == PhotoPath(p, priv, n)
        file == tree_posts[p].photos[<<priv, n>>]
        found == by_path(S, path)
        existing == CHOOSE x \in found : TRUE
    IN  IF found # {} /\ UpToDate(existing, file.mtime)
        THEN [ok |-> TRUE, store |-> Photo_mark(S, existing.id), id |-> existing.id]
        ELSE LET S1 == IF found # {} THEN Photo_delete(S, fk, existing.id) ELSE S
                 ins == InsertPhoto(S1, PhotoRow(path, priv, file))
             IN  IF ~file.ok THEN [ok |-> FALSE, store |-> S1, id |-> PhotoId(path)]
                 ELSE [ok |-> ins.ok, store |-> ins.store, id |-> PhotoId(path)]

RECURSIVE Post_new_photos(_, _, _, _, _)
\* Post::new: Photo::new and INSERT INTO posts_photos for every photo file
Post_new_photos(r, fk, p, priv, photos_todo) ==
    IF ~r.ok \/ photos_todo = << >> THEN r
    ELSE LET photo == Photo_new(r.store, fk, p, priv, Head(photos_todo))
         IN  Post_new_photos(
                IF photo.ok
                THEN InsertPostPhoto(photo.store, fk, Unwrap(tree_posts[p].id), photo.id)
                ELSE Err(photo.store),
                fk, p, priv, Tail(photos_todo))

\* Post::new on a post directory whose sidecar holds its id.
Post_new(r, fk, p) ==
    LET dir == tree_posts[p]
        loaded == from_json_file(dir)
        inserted == InsertPost(r.store, PostRow(p, loaded))
        with_assets == Post_new_assets(inserted, fk, p, ReadAssetsDir(p))
        with_public == Post_new_photos(with_assets, fk, p, FALSE, ReadPhotosDir(p, FALSE))
        with_private == Post_new_photos(with_public, fk, p, TRUE, ReadPhotosDir(p, TRUE))
    IN  IF ~r.ok THEN r
        ELSE IF ~dir.readable \/ ~IsSome(dir.id) THEN Err(r.store)
        ELSE IF ~with_private.ok THEN with_private
        ELSE set_tags(with_private.store, fk, Unwrap(loaded.id), NormalizeTags(loaded.tags))

RECURSIVE build_posts(_, _, _)
\* for post_path in fs::read_dir(&config.posts_path) { Post::new(..)? }
build_posts(r, fk, posts_todo) ==
    IF ~r.ok \/ posts_todo = << >> THEN r
    ELSE build_posts(Post_new(r, fk, Head(posts_todo)), fk, Tail(posts_todo))

\* build, from the first delete to the sweep.
build(S, fk) ==
    LET cleared == User_delete_all(Asset_delete_all(File_delete_all(
                        Photo_unmark_all(Post_delete_all(S, fk))), fk))
        filled == build_posts(
                      IF roots = RootDirs
                      THEN build_files(build_users(Ok(cleared), ConfigUsers), ReadFilesDir)
                      ELSE Err(cleared),
                      fk, ReadPostsDir)
    IN  IF filled.ok THEN Ok(Photo_delete_unmarked(filled.store, fk)) ELSE filled

\* --------------------------------------------------- the photo endpoint
\* Photo::by_id: SELECT .. FROM photos WHERE id = ?, fetch_optional
Photo_by_id(S, id) ==
    LET found == {r \in S.photos : r.id = id}
    IN  IF found = {} THEN None ELSE Some(Photo_from_row(CHOOSE r \in found : TRUE))

\* Photo::get_image_small / get_image_large: SELECT image_.._jpg WHERE id = ?
Photo_get_image_small(S, id) == (CHOOSE r \in S.photos : r.id = id).image_small_jpg
Photo_get_image_large(S, id) == (CHOOSE r \in S.photos : r.id = id).image_large_jpg

\* User::by_hash: SELECT key_hash, group_name FROM users WHERE key_hash = ?
User_by_hash(S, key_hash) ==
    LET found == {u \in S.users : u.key_hash = key_hash}
    IN  IF found = {} THEN None ELSE Some(CHOOSE u \in found : TRUE)

\* A from_cookie that takes every request with a key cookie for a user's.
User_from_cookie_unchecked(S, cookies) ==
    IF IsSome(cookies) THEN Some([key_hash |-> Unwrap(cookies), group_name |-> "family"])
    ELSE None

\* User::from_cookie: the value of the cookie "key", if the request has one,
\* is looked up as a key_hash.
User_from_cookie(S, cookies) ==
    IF IsSome(cookies) THEN User_by_hash(S, Unwrap(cookies)) ELSE None

\* get_photo: 404 for an id without row, 403 for a private photo and no user,
\* else the rendition asked for ("large" unless size=small).
get_photo(S, id, params_size, cookie) ==
    LET user == User_from_cookie(S, cookie)
        size == IF params_size = Some("small") THEN "small" ELSE "large"
        photo == Photo_by_id(S, id)
    IN  IF photo = None THEN [status |-> 404, data |-> None]
        ELSE IF Unwrap(photo).is_private /\ user = None
        THEN [status |-> 403, data |-> None]
        ELSE [status |-> 200,
              data |-> Some(IF size = "small"
                            THEN Photo_get_image_small(S, Unwrap(photo).id)
                            ELSE Photo_get_image_large(S, Unwrap(photo).id))]

\* What a client sends: the id of a photo of the tree or another text, a size
\* parameter or none, and no key cookie, the one post_login sets for the
\* configured key, the hash of another key, or the key itself.
RequestIds == {PhotoId(PhotoPath(s[1], s[2], s[3])) : s \in PhotoSlots} \cup {<<"x">>}
RequestSizes == {None, Some("small"), Some("large")}
RequestCookies ==
    {None, Some(KeyHash("secret")), Some(KeyHash("guess")),
     Some(<<"s", "e", "c", "r", "e", "t">>)}

\* The server answers one GET /photos/{id}, from the store as it is.
GetPhoto ==
    /\ request = None
    /\ \E id \in RequestIds, size \in RequestSizes, cookie \in RequestCookies :
          /\ request' = Some([id |-> id, size |-> size, cookie |-> cookie])
          /\ response' = Some(get_photo(Store, id, size, cookie))
    /\ UNCHANGED <<tree_vars, foreign_keys, img_vars, store_vars, ctl_vars, hist_vars,
                   ops, failure>>

\* Builds, and a request that comes in at any moment.
ServeNext ==
    \/ BuildStart \/ DeletePosts \/ UnmarkAll \/ DeleteFiles \/ DeleteAssets
    \/ DeleteUsers \/ NewUser \/ UsersDone \/ NewFile \/ FilesDone
    \/ LoadPost \/ NewPost \/ NewAsset \/ LinkAsset \/ AssetsDone
    \/ LookupPhoto \/ MakePhoto \/ LinkPhoto \/ PublicPhotosDone
    \/ PrivatePhotosDone \/ SetTags \/ DeleteUnmarked
    \/ GetPhoto

ServeSpec == CrashInit /\ [][ServeNext]_vars

\* ---------------------------------------------------- the post endpoint
\* An id an author writes that is not one path segment.
SlashId == <<"n", "/", "1">>
\* A permalink two sidecars may both declare.
SharedPermalink == <<"a", "b">>

\* Database::query_one: the first of the rows the SELECT yields, or an error
\* when it yields none.  The SELECTs of Post have no ORDER BY: every row that
\* matches may be the first.
query_one(rows) == IF rows = {} THEN {None} ELSE {Some(r) : r \in rows}

\* Post::by_id: SELECT id, title, description, date, permalink FROM posts
\* WHERE id = ?
Post_by_id(S, id) == query_one({r \in S.posts : r.id = id})

\* Post::by_permalink: .. FROM posts WHERE permalink = ?  (a NULL permalink
\* matches no parameter)
Post_by_permalink(S, permalink) ==
    query_one({r \in S.posts : r.permalink = Some(permalink)})

\* format!("/posts/{}/", post.id)
PostUri(id) == <<"/", "p", "o", "s", "t", "s", "/">> \o id \o <<"/">>

\* The answers of get_post: the page of a post, a redirect, an error page.
PostPage(post) ==
    [status |-> 200, location |-> None,
     body |-> Some([id |-> post.id, title |-> post.title, source |-> post.source])]
RedirectTo(uri) == [status |-> 303, location |-> Some(uri), body |-> None]
NotFound == [status |-> 404, location |-> None, body |-> None]

\* get_post: the answers it can give for a key.  Post::by_id first; on its Err
\* Post::by_permalink, whose row gives the redirect; on its Err the 404.
get_post(S, id) ==
    {IF by_id # None THEN PostPage(Unwrap(by_id))
     ELSE IF by_permalink # None
     THEN RedirectTo(PostUri(Unwrap(by_permalink).id))
     ELSE NotFound :
        by_id \in Post_by_id(S, id), by_permalink \in Post_by_permalink(S, id)}

\* The router of serve for a path under /posts/: .route("/posts/{id}/", ..)
\* takes one segment that is not empty and holds no "/", then the closing "/";
\* another path goes to the fallback.  The value is what Path(id) extracts.
route_post(uri) ==
    LET prefix == PostUri(<< >>)
        m == Len(prefix) - 1
        n == Len(uri)
    IN  IF /\ n >= m + 2
           /\ SubSeq(uri, 1, m) = SubSeq(prefix, 1, m)
           /\ uri[n] = "/"
           /\ \A i \in (m + 1)..(n - 1) : uri[i] # "/"
        THEN Some(SubSeq(uri, m + 1, n - 1))
        ELSE None

\* The keys a client asks for: the ids and permalinks authors write, the ids
\* Post::new generates, and another text.
RequestKeys ==
    {AuthorId, SlashId, SharedPermalink, <<"x">>}
        \cup {Format016x(random) : random \in RandomU64}

\* The server answers one GET whose path the router hands to get_post with
\* the key id, from the store as it is.
GetPost ==
    /\ request = None
    /\ \E id \in RequestKeys :
          /\ request' = Some([id |-> Some(id), uri |-> None])
          /\ response' \in {Some(a) : a \in get_post(Store, id)}
    /\ UNCHANGED <<tree_vars, foreign_keys, img_vars, store_vars, ctl_vars, hist_vars,
                   ops, failure>>

\* The client follows the redirect it was given: a GET of the Location, which
\* the router hands to get_post or to the fallback (get_not_found).
FollowRedirect ==
    /\ request # None /\ Unwrap(request).uri = None
    /\ Unwrap(response).status = 303
    /\ LET uri == Unwrap(Unwrap(response).location)
           id == route_post(uri)
       IN  /\ request' = Some([id |-> id, uri |-> Some(uri)])
           /\ response' \in IF id = None THEN {Some(NotFound)}
                            ELSE {Some(a) : a \in get_post(Store, Unwrap(id))}
    /\ UNCHANGED <<tree_vars, foreign_keys, img_vars, store_vars, ctl_vars, hist_vars,
                   ops, failure>>

\* Builds, with a request for a post at any moment and the request that
\* follows its redirect.
LookupNext ==
    \/ BuildStart \/ DeletePosts \/ UnmarkAll \/ DeleteFiles \/ DeleteAssets
    \/ DeleteUsers \/ NewUser \/ UsersDone \/ NewFile \/ FilesDone
    \/ LoadPost \/ NewPost \/ NewAsset \/ LinkAsset \/ AssetsDone
    \/ LookupPhoto \/ MakePhoto \/ LinkPhoto \/ PublicPhotosDone
    \/ PrivatePhotosDone \/ SetTags \/ DeleteUnmarked
    \/ GetPost \/ FollowRedirect

\* A fresh database next to a tree of two posts: p2 with the id an author
\* wrote and a permalink; p1 without id or with an author's id, and without
\* permalink, with the permalink of p2, or with a permalink that reads as the
\* id of p2.
LookupInit ==
    /\ scale_in = SeedImage /\ scale_out = None
    /\ \E id1 \in {None, Some(SlashId)},
          permalink1 \in {None, Some(SharedPermalink), Some(AuthorId)} :
          tree_posts = [p \in PostDirs |->
                          IF p = "p1"
                          THEN [SeedPost(p, id1) EXCEPT !.permalink = permalink1]
                          ELSE [SeedPost(p, Some(AuthorId)) EXCEPT
                                  !.permalink = Some(SharedPermalink)]]
    /\ tree_files = {<<"styles", "main.css">>}
    /\ read_dir \in DirOrders
    /\ roots = RootDirs
    /\ foreign_keys \in BOOLEAN
    /\ IdleInit

LookupSpec == LookupInit /\ [][LookupNext]_vars

\* ------------------------------------------------ the resize, on its own
\* Widths and heights of decoded images, and values of
\* cfg.photo_max_preview_size (all u32).
ImageSizes ==
    {1, 2, 3, 5, 7, 100, 1080, 1920, 8388609, 16777216, 16777217, 16777219}
PreviewSizes ==
    {1, 2, 3, 5, 7, 100, 1080, 1920, 8388609, 16777216, 16777217, 16777219}

\* Photo::new between decode and encode: the large rendition is the decoded
\* image itself, the small one the image resized to the two sizes computed.
Resize ==
    /\ scale_out = None
    /\ scale_out' = Some([large |-> <<scale_in.width, scale_in.height>>,
                          small |-> SmallSize(scale_in.width, scale_in.height,
                                              scale_in.max)])
    /\ UNCHANGED <<scale_in, tree_vars, foreign_keys, store_vars, ctl_vars,
                   hist_vars, ops, failure, web_vars>>

ScaleInit ==
    /\ scale_in \in [width : ImageSizes, height : ImageSizes, max : PreviewSizes]
    /\ scale_out = None
    /\ tree_posts = [p \in PostDirs |->
                        IF p = "p1" THEN SeedPost(p, None) ELSE AbsentPost]
    /\ tree_files = {<<"styles", "main.css">>}
    /\ read_dir = <<"p1", "p2">>
    /\ roots = RootDirs
    /\ foreign_keys = TRUE
    /\ IdleInit

ScaleNext == Resize

ScaleSpec == ScaleInit /\ [][ScaleNext]_vars

\* ---------------------------------------------------------------- claims
\* How often a row occurs in a rowid-ordered table.
Count(tbl, x) == Cardinality({i \in DOMAIN tbl : tbl[i] = x})

\* Two rowid-ordered tables hold the same rows, each as often.
SameRows(t1, t2) ==
    \A x \in Rows(t1) \cup Rows(t2) : Count(t1, x) = Count(t2, x)

\* Two stores hold the same rows in every table.
SameStore(S1, S2) ==
    /\ S1.posts = S2.posts /\ S1.photos = S2.photos /\ S1.styles = S2.styles
    /\ S1.files = S2.files
    /\ SameRows(S1.posts_tags, S2.posts_tags)
    /\ SameRows(S1.posts_photos, S2.posts_photos)
    /\ SameRows(S1.posts_assets, S2.posts_assets)

\* The photo files of the tree: <post dir, is_private, name>.
TreePhotos ==
    {s \in PhotoSlots :
        tree_posts[s[1]].present /\ tree_posts[s[1]].photos[<<s[2], s[3]>>].mtime > 0}
TreeFile(s) == tree_posts[s[1]].photos[<<s[2], s[3]>>]
SlotPath(s) == PhotoPath(s[1], s[2], s[3])

\* The statements of build() from the posts loop to the sweep.
InPostsPass ==
    pc \in {"posts", "post_insert", "assets", "asset_link", "photos",
            "photo_make", "photo_link", "set_tags"}

\* C1: a build that follows a completed build, with the content tree left
\* untouched in between, runs no image transform, inserts and deletes no
\* photo row, and ends with every table holding the rows it held before.
C1_Idempotence ==
    (pc = "done" /\ unchanged) =>
        /\ transformed = {}
        /\ photo_writes = {}
        /\ SameStore(Store, start)

\* C2: after a completed build every photo row has a source_path the build
\* came across, and a photo whose file is gone has neither a photo row nor a
\* posts_photos row left.
C2_DeletionPropagation ==
    pc = "done" =>
        /\ \A r \in photos : r.source_path \in handled
        /\ \A r0 \in start.photos :
              (\A s \in TreePhotos : SlotPath(s) # r0.source_path) =>
                  /\ \A r \in photos : r.source_path # r0.source_path
                  /\ \A i \in DOMAIN posts_photos : posts_photos[i].photo_id # r0.id

\* C3: after a completed build every photo file has exactly one photo row,
\* private exactly when it lies in the private directory, linked exactly once
\* to the post of its directory, and no association row is an orphan.
C3_MirrorCompleteness ==
    pc = "done" =>
        /\ \A s \in TreePhotos :
              /\ Cardinality(by_path(Store, SlotPath(s))) = 1
              /\ \A r \in by_path(Store, SlotPath(s)) :
                    /\ r.is_private = s[2]
                    /\ Count(posts_photos,
                             [post_id |-> Unwrap(tree_posts[s[1]].id),
                              photo_id |-> r.id]) = 1
                    /\ \A i \in DOMAIN posts_photos :
                          posts_photos[i].photo_id = r.id =>
                              posts_photos[i].post_id = Unwrap(tree_posts[s[1]].id)
        /\ \A i \in DOMAIN posts_photos :
              /\ \E q \in posts : q.id = posts_photos[i].post_id
              /\ \E q \in photos : q.id = posts_photos[i].photo_id
        /\ \A i \in DOMAIN posts_assets :
              /\ \E q \in posts : q.id = posts_assets[i].post_id
              /\ \E q \in styles : q.id = posts_assets[i].asset_id
        /\ \A i \in DOMAIN posts_tags :
              \E q \in posts : q.id = posts_tags[i].post_id

\* C4: after a completed build, a photo file newer than the row the store held
\* for its path when the build started has been transformed in this build,
\* and its row carries the file's modification time, the renditions of the
\* file's bytes and the id of the old row.
C4_ChangeDetection ==
    pc = "done" =>
        \A s \in TreePhotos : \A r0 \in start.photos :
            (r0.source_path = SlotPath(s) /\ TreeFile(s).mtime > r0.source_time) =>
                /\ SlotPath(s) \in transformed
                /\ \E r \in photos :
                      /\ r.source_path = SlotPath(s)
                      /\ r.source_time = TreeFile(s).mtime
                      /\ r.image_large_jpg = EncodeLarge(TreeFile(s).bytes)
                      /\ r.image_small_jpg = EncodeSmall(TreeFile(s).bytes)
                      /\ r.id = r0.id

C4_Witness ==
    /\ pc = "done"
    /\ \E s \in TreePhotos : \E r0 \in start.photos :
          r0.source_path = SlotPath(s) /\ TreeFile(s).mtime > r0.source_time

HexDigits == {Digits[i] : i \in DOMAIN Digits}

\* C5: an id is generated at most once for a post; a generated id has 16
\* lowercase hexadecimal digits and is in the sidecar; a sidecar's id never
\* changes once it is there; after a completed build every post directory has
\* its id in the sidecar and its row under that id.
C5_PostIdStable ==
    /\ [](\A p \in PostDirs :
            /\ generated[p] <= 1
            /\ generated[p] = 1 =>
                  /\ IsSome(tree_posts[p].id)
                  /\ Len(Unwrap(tree_posts[p].id)) = IdWidth
                  /\ \A i \in 1..Len(Unwrap(tree_posts[p].id)) :
                        Unwrap(tree_posts[p].id)[i] \in HexDigits
            /\ (pc = "done" /\ tree_posts[p].present) =>
                  /\ IsSome(tree_posts[p].id)
                  /\ \E q \in posts : q.id = Unwrap(tree_posts[p].id))
    /\ [][\A p \in PostDirs :
            (IsSome(tree_posts[p].id) /\ tree_posts'[p].present) =>
                tree_posts'[p].id = tree_posts[p].id]_vars

C5_Witness ==
    /\ pc = "done" /\ unchanged
    /\ \E p \in PostDirs : generated[p] = 1 /\ tree_posts[p].present

\* The ids tag rows or post rows speak of.
KnownPostIds(S) == {r.id : r \in S.posts} \cup {r.post_id : r \in Rows(S.posts_tags)}

\* C6: set_tags leaves get_tags of the post equal to the list passed in,
\* whatever rows the post had, and leaves the tags of every other post alone;
\* after a completed build the tags of every post row are the normalised tags
\* of its sidecar.
C6_TagReplace ==
    /\ [][(pc = "set_tags" /\ pc' = "posts") =>
            LET id == Unwrap(tree_posts[cur_post].id)
            IN  /\ get_tags(Store', id) = NormalizeTags(tree_posts[cur_post].tags)
                /\ \A other \in KnownPostIds(Store) \ {id} :
                      get_tags(Store', other) = get_tags(Store, other)]_vars
    /\ [](pc = "done" =>
            \A p \in PostDirs : tree_posts[p].present =>
                get_tags(Store, Unwrap(tree_posts[p].id))
                    = NormalizeTags(tree_posts[p].tags))

C6_Witness ==
    /\ pc = "posts" /\ ~foreign_keys
    /\ IsSome(tree_posts[cur_post].id)
    /\ get_tags(Store, Unwrap(tree_posts[cur_post].id)) # << >>
    /\ get_tags(start, Unwrap(tree_posts[cur_post].id)) # << >>
    /\ get_tags(start, Unwrap(tree_posts[cur_post].id))
          # get_tags(Store, Unwrap(tree_posts[cur_post].id))

RECURSIVE AssetFiles(_)
\* The number of asset files in a set of post directories.
AssetFiles(dirs) ==
    IF dirs = {} THEN 0
    ELSE LET p == CHOOSE q \in dirs : TRUE
         IN  Cardinality(tree_posts[p].assets) + AssetFiles(dirs \ {p})

\* C7: after a completed build there are as many file rows as static files,
\* as many asset rows as asset files and as many post rows as post
\* directories, whatever the store held before.
C7_UnconditionalEntities ==
    pc = "done" =>
        /\ Cardinality(files) = Cardinality(tree_files)
        /\ Cardinality(styles) =
              AssetFiles({p \in PostDirs : tree_posts[p].present})
        /\ Cardinality(posts) = Cardinality({p \in PostDirs : tree_posts[p].present})

C7_Witness ==
    /\ pc = "done"
    /\ start.files # {} /\ start.styles # {} /\ start.posts # {}
    /\ files # {} /\ styles # {}

\* C8: in every state, also between the delete and the insert of a modified
\* photo, no two photo rows share a source_path and no two share an id.
C8_PhotoPathUnique ==
    \A r1, r2 \in photos :
        (r1.source_path = r2.source_path \/ r1.id = r2.id) => r1 = r2

C8_Witness ==
    /\ pc = "photo_make"
    /\ \E r0 \in start.photos : r0.source_path = CurPath
    /\ by_path(Store, CurPath) = {}
    /\ photos # {}

\* C9: during the posts pass a photo row is marked exactly when Photo::new
\* has handled its path in this build; after a completed build every photo
\* row is marked.
C9_MarkInvariant ==
    /\ InPostsPass => \A r \in photos : r.mark <=> r.source_path \in handled
    /\ pc = "done" => \A r \in photos : r.mark

C9_Witness ==
    /\ InPostsPass
    /\ \E r \in photos : r.mark
    /\ \E r \in photos : ~r.mark

\* C10: Post::delete_all removes every posts_tags, posts_photos and
\* posts_assets row of the posts it deletes and leaves the photo rows alone.
C10_PostDeleteCascade ==
    [][pc = "delete_posts" =>
        /\ posts' = {}
        /\ \A q \in posts :
              /\ \A r \in Rows(posts_tags') : r.post_id # q.id
              /\ \A r \in Rows(posts_photos') : r.post_id # q.id
              /\ \A r \in Rows(posts_assets') : r.post_id # q.id
        /\ photos' = photos]_vars

\* C11: in every state of the store no two post rows have the same non-null
\* permalink, also when two sidecars declare the same permalink.
C11_PermalinkUnique ==
    \A r1, r2 \in posts :
        (IsSome(r1.permalink) /\ r1.permalink = r2.permalink) => r1 = r2

\* C12: a post directory whose content file or sidecar cannot be read does
\* not end the build; the build goes on to the sweep, and when it is done
\* every readable post directory has its post row.
C12_PostSkip ==
    /\ ~(pc = "aborted" /\ failure = "read")
    /\ pc = "done" =>
          \A p \in PostDirs : (tree_posts[p].present /\ tree_posts[p].readable) =>
              \E q \in posts : q.id = Unwrap(tree_posts[p].id)

\* C13: a photo file the decoder rejects does not end the build; when the
\* build is done every photo file the decoder accepts has its photo row.
C13_PhotoSkip ==
    /\ ~(pc = "aborted" /\ failure = "decode")
    /\ pc = "done" =>
          \A s \in TreePhotos : TreeFile(s).ok => by_path(Store, SlotPath(s)) # {}

\* The store rejects the write of the statement that runs next.
StatementRejected ==
    \/ pc = "users" /\ todo # << >> /\ ~User_new(Store, Head(todo)).ok
    \/ pc = "post_insert"
          /\ ~InsertPost(Store, PostRow(cur_post, cur_metadata)).ok
    \/ pc = "asset_link"
          /\ ~InsertPostAsset(Store, foreign_keys,
                              Unwrap(tree_posts[cur_post].id), Unwrap(cur_id)).ok
    \/ pc = "photo_make" /\ CurFile.ok
          /\ ~InsertPhoto(Store, PhotoRow(CurPath, cur_private, CurFile)).ok
    \/ pc = "photo_link"
          /\ ~InsertPostPhoto(Store, foreign_keys,
                              Unwrap(tree_posts[cur_post].id), Unwrap(cur_id)).ok
    \/ pc = "set_tags"
          /\ ~set_tags(Store, foreign_keys, Unwrap(tree_posts[cur_post].id),
                       NormalizeTags(tree_posts[cur_post].tags)).ok

\* C14: a store write that is rejected ends the build at once (the process
\* ends by a panic); the build that ended so runs no further store
\* statement, the sweep included: the store stays as it is until the next
\* build starts.
C14_StoreFailureFatal ==
    /\ [][StatementRejected => (pc' = "aborted" /\ failure' = "store")]_vars
    /\ [][pc = "aborted" =>
            /\ Store' = Store
            /\ pc' \in {"aborted", "idle", "delete_posts"}
            /\ pc' = "delete_posts" => n_builds' = n_builds + 1]_vars

C14_Witness ==
    /\ pc = "aborted" /\ failure = "store"
    /\ \E r \in photos : ~r.mark

\* The photo rows whose source file is in the tree, not newer than the row.
CurrentRows(rows) ==
    {r \in rows : \E s \in TreePhotos :
        SlotPath(s) = r.source_path /\ TreeFile(s).mtime <= r.source_time}

\* C15: while a build runs, and after it has stopped early, every photo row
\* the store held when the build started, whose source file is still there
\* and not newer than the row, is still in the store with its renditions; a
\* photo row goes only when Photo::new finds its file newer or in the sweep
\* that follows the walk of all post directories.
C15_NoLossOnPartialFailure ==
    /\ [](pc \notin {"idle", "done"} =>
            \A r0 \in CurrentRows(start.photos) :
                \E r \in photos : [r EXCEPT !.mark = r0.mark] = r0)
    /\ [][\A r \in photos :
            (\A q \in photos' : q.source_path # r.source_path) =>
                \/ pc = "posts" /\ todo_posts = << >> /\ pc' = "done"
                \/ /\ pc = "photos" /\ r.source_path = CurPath
                   /\ r.source_time < CurFile.mtime]_vars

C15_Witness ==
    /\ pc = "aborted"
    /\ \E r \in CurrentRows(photos) : ~r.mark /\ r \in CurrentRows(start.photos)

\* C16: a build that ends because the files root or the posts root cannot
\* be enumerated has written nothing to the store: every table is as it was
\* when the build started.
C16_RootsFailAtStartup ==
    (pc = "aborted" /\ failure = "root") => Store = start

\* The sub-directories a post directory lacks.
AbsentDirs(p) == SubDirs \ tree_posts[p].dirs

\* C17: a sub-directory that is not there is walked as one without entries:
\* the loop over it has nothing to do and raises no error, and when the build
\* is done the post has its row and its tags and no photo row from that
\* sub-directory.
C17_OptionalSubdirs ==
    /\ (pc \in {"assets", "asset_link"} /\ "assets" \in AbsentDirs(cur_post))
          => todo = << >>
    /\ (pc \in {"photos", "photo_make", "photo_link"}
            /\ PhotosDir(cur_private) \in AbsentDirs(cur_post))
          => todo = << >>
    /\ pc = "done" =>
          \A p \in PostDirs : (tree_posts[p].present /\ AbsentDirs(p) # {}) =>
              LET id == Unwrap(tree_posts[p].id)
              IN  /\ \E q \in posts : q.id = id
                  /\ get_tags(Store, id) = NormalizeTags(tree_posts[p].tags)
                  /\ \A v \in Visibilities : PhotosDir(v) \in AbsentDirs(p) =>
                        \A n \in PhotoNames : by_path(Store, PhotoPath(p, v, n)) = {}

C17_Witness ==
    /\ pc = "done"
    /\ \A d \in SubDirs : \E p \in PostDirs :
          /\ tree_posts[p].present /\ d \in AbsentDirs(p)
          /\ get_tags(Store, Unwrap(tree_posts[p].id)) # << >>

\* The files of a post directory other than the sidecar.
OtherFiles(dir) ==
    [present |-> dir.present, readable |-> dir.readable, dirs |-> dir.dirs,
     assets |-> dir.assets, photos |-> dir.photos]

\* C18: a step of a build leaves the static files, the roots and, in every
\* post directory, the content, asset and photo files as they are; it leaves
\* a sidecar that has an id as it is; and when it writes a sidecar, that is
\* the sidecar without id of the post being loaded, which gets an id and
\* keeps title, description, date, tags (as authored, in order) and
\* permalink.
C18_SidecarWriteBack ==
    [][n_edits' = n_edits =>
        /\ tree_files' = tree_files /\ roots' = roots
        /\ \A p \in PostDirs :
              LET a == tree_posts[p]
                  b == tree_posts'[p]
              IN  /\ OtherFiles(b) = OtherFiles(a)
                  /\ IsSome(a.id) => b = a
                  /\ b # a =>
                        /\ pc = "posts" /\ todo_posts # << >> /\ p = Head(todo_posts)
                        /\ ~IsSome(from_json_file(a).id)
                        /\ IsSome(b.id)
                        /\ from_json_file(b) = [from_json_file(a) EXCEPT !.id = b.id]]_vars

C18_Witness ==
    /\ pc = "post_insert" /\ n_builds = 1 /\ generated[cur_post] = 1
    /\ tree_posts[cur_post].tags # NormalizeTags(tree_posts[cur_post].tags)

\* The arguments Photo::list is called with.
ListPostIds == {None} \cup {Some(q.id) : q \in posts}
ListOffsets == {None, Some(0), Some(1), Some(2)}
ListLimits == {None, Some(0), Some(1), Some(2)}

\* The dates of the posts a photo is linked to.
OwnerDates(id) ==
    {q.date : q \in {q \in posts :
        \E i \in DOMAIN posts_photos :
            posts_photos[i] = [post_id |-> q.id, photo_id |-> id]}}

\* items[i] may stand before items[j] in the order of the listing.
InListOrder(x, y) ==
    \E dx \in OwnerDates(x.id), dy \in OwnerDates(y.id) :
        \/ TextLess(dy, dx)
        \/ dx = dy /\ x.source_time >= y.source_time

\* C19: for every store, post filter, offset and limit Photo::list returns;
\* the items are ordered by the date of their post, latest first, and within
\* a date by source_time, latest first; without include_private no item is
\* private and the count returned is the number of private photos left out;
\* with include_private the count is 0.
C19_ListPhotos ==
    \A include_private \in BOOLEAN, post_id \in ListPostIds,
       offset \in ListOffsets, limit \in ListLimits :
        LET r == Photo_list(Store, include_private, post_id, offset, limit)
            window == ListWindow(Store, post_id, offset, limit)
        IN  /\ r.ok
            /\ \A i, j \in DOMAIN r.photos :
                  i < j => InListOrder(r.photos[i], r.photos[j])
            /\ ~include_private =>
                  /\ \A i \in DOMAIN r.photos : ~r.photos[i].is_private
                  /\ r.hidden = Cardinality({i \in DOMAIN window :
                                                window[i].photo.is_private})
            /\ include_private => r.hidden = 0

\* C20: for every decoded image and every photo_max_preview_size, both sizes
\* computed for the small rendition are at most photo_max_preview_size, and
\* the large rendition has the width and height of the image.
C20_SmallRenditionBounds ==
    IsSome(scale_out) =>
        /\ Unwrap(scale_out).small[1] <= scale_in.max
        /\ Unwrap(scale_out).small[2] <= scale_in.max
        /\ Unwrap(scale_out).large = <<scale_in.width, scale_in.height>>

\* C21: when Photo::new finds a row for the path whose source_time is not
\* older than the file, the step only sets that row's mark: no transform, no
\* row inserted or deleted, every other column and every other row as it was,
\* and the photo returned is that row.
C21_UnchangedPhotoFrame ==
    [][\A existing \in photos :
          (/\ pc = "photos" /\ todo # << >>
           /\ existing.source_path = CurPath
           /\ existing.source_time >= CurFile.mtime) =>
              /\ photos' = (photos \ {existing}) \cup {[existing EXCEPT !.mark = TRUE]}
              /\ UNCHANGED <<posts, posts_tags, posts_photos, styles, posts_assets,
                             files, users>>
              /\ transformed' = transformed
              /\ photo_writes' = photo_writes
              /\ cur_id' = Some(existing.id)
              /\ pc' = "photo_link"]_vars

C21_Witness ==
    /\ pc = "photo_link"
    /\ CurPath \in handled \ transformed
    /\ \E r \in photos : r.source_path = CurPath /\ r.mark
    /\ \E r \in photos : r.source_path # CurPath /\ ~r.mark

\* The positions of a statement in the history of writes, and the statements
\* of Photo::new.
Issued(op) == {i \in DOMAIN ops : ops[i].op = op}
PhotoSyncs == Issued("mark") \cup Issued("delete") \cup Issued("insert_photo")

\* C22: in every build Photo::unmark_all is issued before the first statement
\* of any Photo::new; Photo::delete_unmarked is issued at most once, nothing
\* is issued after it, and a completed build has issued it once, with every
\* photo file of every post directory marked or inserted before.
C22_SweepOrdering ==
    /\ \A i \in PhotoSyncs : \E j \in Issued("unmark_all") : j < i
    /\ Cardinality(Issued("delete_unmarked")) <= 1
    /\ \A i \in Issued("delete_unmarked") : i = Len(ops)
    /\ pc = "done" =>
          /\ Cardinality(Issued("delete_unmarked")) = 1
          /\ \A s \in TreePhotos :
                /\ SlotPath(s) \in handled
                /\ \E i \in PhotoSyncs : ops[i].dir = s[1]

C22_Witness ==
    /\ pc = "done"
    /\ Issued("mark") # {}
    /\ \A p \in PostDirs : \E i \in PhotoSyncs : ops[i].dir = p
    /\ \E r \in start.photos : r.source_path \notin handled

\* C23: a generated id is written to the sidecar before any write of the store
\* for that post, and in every state, a killed build's included, every row of
\* posts carries the id that the sidecar of its post directory holds.
C23_IdPersistedFirst ==
    /\ \A j \in Issued("to_json_file") : \A i \in DOMAIN ops :
          (ops[i].dir = ops[j].dir /\ i # j) => j < i
    /\ \A i \in Issued("insert_post") : IsSome(tree_posts[ops[i].dir].id)
    /\ \A q \in posts : \E p \in PostDirs :
          /\ tree_posts[p].present
          /\ q.source = PostContent(p)
          /\ tree_posts[p].id = Some(q.id)

C23_Witness ==
    /\ pc = "aborted" /\ failure = "crash"
    /\ \E p \in PostDirs :
          /\ Write("to_json_file", p) \in Rows(ops)
          /\ \E q \in posts : q.source = PostContent(p) /\ tree_posts[p].id = Some(q.id)

\* A tag as the store is to hold it: lowercase, "_" for every space.
StoredChar(c) ==
    IF c = " " THEN "_"
    ELSE IF c = "A" THEN "a" ELSE IF c = "B" THEN "b" ELSE IF c = "C" THEN "c"
    ELSE c
StoredTags(tags) ==
    [i \in DOMAIN tags |-> [k \in DOMAIN tags[i] |-> StoredChar(tags[i][k])]]

\* C24: the tag rows Post::new writes for a post are the tags of its sidecar,
\* each lowercased and with "_" for every space, in the sidecar's order; no
\* step of a build changes the tags of a sidecar.
C24_TagNormalization ==
    /\ [][(pc = "set_tags" /\ pc' = "posts") =>
            get_tags(Store', Unwrap(tree_posts[cur_post].id))
                = StoredTags(tree_posts'[cur_post].tags)]_vars
    /\ [][~Stopped =>
            \A p \in PostDirs : tree_posts'[p].tags = tree_posts[p].tags]_vars

C24_Witness ==
    /\ pc = "posts" /\ IsSome(tree_posts[cur_post].id)
    /\ tree_posts[cur_post].extra = FALSE
    /\ tree_posts[cur_post].tags = << <<"A", " ", "b">> >>
    /\ get_tags(Store, Unwrap(tree_posts[cur_post].id)) = << <<"a", "_", "b">> >>
    /\ Write("to_json_file", cur_post) \in Rows(ops)

\* The writes Post::new issues for the assets and the photos of a post.
ItemWrites ==
    Issued("insert_asset") \cup Issued("link_asset") \cup PhotoSyncs
        \cup Issued("link_photo")

\* C25: the row of a post and its tag rows are written before any asset or
\* photo of the post is processed: every write for an asset or a photo of a
\* post directory has the INSERT INTO posts and the set_tags of that directory
\* before it, and whenever the running build has linked an asset or a photo to
\* a post, the tags of the post's sidecar are in the store.
C25_PostWriteOrder ==
    /\ \A i \in ItemWrites :
          /\ \E j \in Issued("insert_post") : j < i /\ ops[j].dir = ops[i].dir
          /\ \E j \in Issued("set_tags") : j < i /\ ops[j].dir = ops[i].dir
    /\ InPostsPass =>
          \A i \in Issued("link_asset") \cup Issued("link_photo") :
              get_tags(Store, Unwrap(tree_posts[ops[i].dir].id))
                  = NormalizeTags(tree_posts[ops[i].dir].tags)

\* Category directories and file names a request can ask for.
Categories == {"styles", "files", "assets"}
FileNames == {slot[2] : slot \in FileSlots}

\* C26: once the files loop of build has ended, and until the build ends,
\* every file of every category directory has exactly one files row, with the
\* directory's name as path, the file's name and the file's bytes;
\* by_path_and_name returns that row, and None for a pair the tree does not
\* have; every INSERT INTO files is issued before the first write of a post.
C26_FilesPass ==
    /\ (InPostsPass \/ pc = "done") =>
          \A path \in Categories, name \in FileNames :
              LET file == File_by_path_and_name(Store, path, name)
              IN  IF <<path, name>> \in tree_files
                  THEN /\ Cardinality({r \in files : r.path = path /\ r.name = name}) = 1
                       /\ IsSome(file)
                       /\ Unwrap(file).path = path /\ Unwrap(file).name = name
                       /\ File_get_data(Store, Unwrap(file).id) = FileData(<<path, name>>)
                  ELSE file = None
    /\ \A i \in Issued("insert_file") : \A j \in DOMAIN ops :
          ops[j].dir # "-" => i < j

C26_Witness ==
    /\ pc = "posts" /\ todo_posts = ReadPostsDir /\ todo_posts # << >>
    /\ tree_files = FileSlots
    /\ start.files # {}
    /\ Cardinality(Issued("insert_file")) = 2

\* C27: a build that runs to its end after a killed build, on the same tree,
\* leaves the store that one build would have made of the store the killed
\* build started from (and a build that follows no killed build leaves what
\* one build makes of the store it started from).
C27_RecoveryConvergence ==
    pc = "done" =>
        LET before == IF IsSome(origin) THEN Unwrap(origin) ELSE start
            whole == build(before, foreign_keys)
        IN  /\ whole.ok
            /\ SameStore(Store, whole.store)
            /\ users = whole.store.users

\* C28: no two rows of posts share an id; when Post::new comes to a post
\* directory whose id a row of posts already holds, the INSERT is rejected,
\* the build aborts and the store stays as it was, the first post's row
\* included.
C28_DuplicatePostIds ==
    /\ [](\A q1, q2 \in posts : q1.id = q2.id => q1 = q2)
    /\ [][(/\ pc = "post_insert"
           /\ \E q \in posts : Some(q.id) = tree_posts[cur_post].id) =>
              /\ pc' = "aborted"
              /\ UNCHANGED store_vars]_vars

C28_Witness ==
    /\ pc = "aborted" /\ failure = "store"
    /\ ops[Len(ops)] = Write("insert_post", cur_post)
    /\ \A p \in PostDirs : generated[p] = 1
    /\ \E q \in posts : /\ Some(q.id) = tree_posts[cur_post].id
                        /\ q.source # PostContent(cur_post)

\* Page sizes (photos_per_page), and the pages get_photos asks for.
PageLimits == {1, 2}
PageOffset(page, limit) == (page - 1) * limit

RECURSIVE PagesFrom(_, _, _)
\* The photos of the pages from `page` on, one after the other, as a visitor
\* without a user's cookie gets them; the last page is the one that holds the
\* last joined row.
PagesFrom(S, page, limit) ==
    IF PageOffset(page, limit) >= Len(S.posts_photos) THEN << >>
    ELSE Photo_list(S, FALSE, None, Some(PageOffset(page, limit)), Some(limit)).photos
            \o PagesFrom(S, page + 1, limit)

\* C29: after a completed build, for every page size and page, the photos
\* Photo::list returns without the private ones are the public photos among
\* the rows of that window of the full listing, the hidden count is the
\* number of the others, and the pages one after the other hold every
\* public photo exactly once.
C29_PagedListing ==
    pc = "done" =>
        \A limit \in PageLimits :
            LET full == Photo_list(Store, TRUE, None, None, None).photos
                all_pages == PagesFrom(Store, 1, limit)
            IN  /\ \A page \in 1..(Len(full) + 1) :
                      LET offset == PageOffset(page, limit)
                          r == Photo_list(Store, FALSE, None, Some(offset), Some(limit))
                          last == IF offset + limit < Len(full)
                                  THEN offset + limit ELSE Len(full)
                          window == SubSeq(full, offset + 1, last)
                      IN  /\ r.ok
                          /\ r.photos = SelectSeq(window, LAMBDA x : ~x.is_private)
                          /\ Len(r.photos) + r.hidden = Len(window)
                /\ \A x \in photos :
                      ~x.is_private => Count(all_pages, Photo_from_row(x)) = 1
                /\ \A i \in DOMAIN all_pages :
                      \E x \in photos : ~x.is_private /\ all_pages[i] = Photo_from_row(x)

\* C30: get_photo answers 404 and no bytes for an id without photo row; for a
\* private photo it answers 403 and no bytes unless the request's key cookie
\* is the key_hash of a row of users, and then the rendition asked for; a
\* public photo's rendition goes to every request.
C30_PrivatePhotoAccess ==
    [][(request = None /\ request' # None) =>
          LET req == Unwrap(request')
              resp == Unwrap(response')
              rows == {r \in photos : r.id = req.id}
              known == /\ req.cookie # None
                       /\ \E u \in users : u.key_hash = Unwrap(req.cookie)
          IN  /\ rows = {} => resp = [status |-> 404, data |-> None]
              /\ \A r \in rows :
                    IF r.is_private /\ ~known
                    THEN resp = [status |-> 403, data |-> None]
                    ELSE /\ resp.status = 200
                         /\ resp.data = Some(IF req.size = Some("small")
                                             THEN r.image_small_jpg
                                             ELSE r.image_large_jpg)]_vars

C30_Witness ==
    /\ request # None
    /\ Unwrap(request).cookie = Some(KeyHash("secret"))
    /\ \E r \in photos : r.is_private /\ r.id = Unwrap(request).id
    /\ Unwrap(response).status = 200
    /\ users # {}

\* The request get_post has just answered for a key, and its answer.
AnsweredKey == Unwrap(Unwrap(request').id)
Answer == Unwrap(response')

\* The answer to a key taken by the rows of the posts table: the page of the
\* row whose id is the key; without such a row a redirect, without body, to
\* /posts/<id>/ of a row whose permalink is the key; without that a 404.
LookupPrecedence ==
    (request = None /\ request' # None) =>
        LET with_id == {r \in posts : r.id = AnsweredKey}
            with_permalink == {r \in posts : r.permalink = Some(AnsweredKey)}
        IN  /\ \A r \in with_id :
                  /\ Answer.status = 200 /\ Answer.location = None
                  /\ Answer.body =
                        Some([id |-> AnsweredKey, title |-> r.title, source |-> r.source])
            /\ (with_id = {} /\ with_permalink # {}) =>
                  /\ Answer.status = 303 /\ Answer.body = None
                  /\ \E r \in with_permalink :
                        Answer.location =
                            Some(<<"/", "p", "o", "s", "t", "s", "/">> \o r.id \o <<"/">>)
            /\ (with_id = {} /\ with_permalink = {}) =>
                  Answer = [status |-> 404, location |-> None, body |-> None]

\* The rows of the posts table a redirect was made from.
RedirectRows(resp) ==
    {r \in posts : resp.location =
                      Some(<<"/", "p", "o", "s", "t", "s", "/">> \o r.id \o <<"/">>)}

\* A client that follows a redirect of get_post, made from a row that is
\* still there, is answered with the page of that row.
RedirectReaches ==
    (request # None /\ request' # request) =>
        \A r \in RedirectRows(Unwrap(response)) :
            /\ Answer.status = 200
            /\ Answer.body = Some([id |-> r.id, title |-> r.title, source |-> r.source])

\* C31: get_post answers a key with the page of the post whose id is the key;
\* when no post has that id and some post has the key as permalink, with a
\* redirect to /posts/<id of that post>/ and no content; otherwise with 404.
\* Following the redirect reaches the page of a post that exists.
C31_PostLookup == [][LookupPrecedence /\ RedirectReaches]_vars
====
